---------------------------- MODULE Spec2Model ----------------------------
(***************************************************************************)
(* A model of bt_ai_offline.py, the interactive Bluetooth troubleshooter:  *)
(* the table loader (load_json), the vendor resolver (guess_vendor), the   *)
(* policy matcher and plan formatter (format_plan), the command runner     *)
(* (run_command) and the session that ties them together (main).           *)
(*                                                                         *)
(* Values.  A Python str is the sequence of its code points (0..1114111),  *)
(* so that substring search, case mapping, splitting, replacement,         *)
(* stripping and int() are computed the way the interpreter computes them  *)
(* on every str; S("text") writes the str of an ASCII text.  What          *)
(* json.load returns is a record tagged with its shape: object, array,     *)
(* string, number, true, false or null.  An object (a dict) holds its      *)
(* [key, value] members in insertion order.  A number is held as the text  *)
(* str() gives for it, whatever its size.  Python's None is the null of    *)
(* that representation, or, where only a str or None can stand, the value  *)
(* None below.                                                             *)
(*                                                                         *)
(* Exceptions.  A function of the program yields a record: the value it    *)
(* returns, or the class of the exception it raises with the line that     *)
(* raises it.  An exception that leaves main ends the process; the         *)
(* session then rests at pc = "crashed" with the exception in fault.       *)
(*                                                                         *)
(* Environment.  Standard input and output are UTF-8, as the interpreter   *)
(* sets them up by default; their error handler is "strict" or, under the  *)
(* C locale, "surrogateescape" (the variable stdio).  The Unicode tables   *)
(* are those of the interpreter's Unicode database, version 14.0.          *)
(***************************************************************************)
EXTENDS Integers, Sequences, FiniteSets, TLC

VARIABLES
  pc,        \* the line main (or the function under study) is about to run
  files,     \* the three table files on disk: path -> [state, json]
  stdio,     \* the error handler of sys.stdin and sys.stdout
  vendors,   \* main's local: the vendor table in use
  known,     \* main's local: the device catalog in use
  probs,     \* main's local: the policy table in use
  warnings,  \* the paths for which "[warn] failed to load" was printed
  dtype,     \* main's local: the device type typed in
  vname,     \* main's local: the vendor name typed in
  mname,     \* main's local: the model name typed in
  mac,       \* main's local: the MAC typed in
  detected,  \* the value printed after "Detected vendor via MAC:"
  choice,    \* main's local: the problem key or number typed in
  key,       \* main's local: the key handed to format_plan
  plan,      \* the text format_plan returned
  do,        \* main's local: the answer to the execution prompt
  todo,      \* what the execution loop still has to do
  executed,  \* the commands the execution loop has run, in order
  outputs,   \* what run_command returned for each of them
  notice,    \* whether "No commands found to run." was printed
  shown,     \* the key of the entry whose plan format_plan rendered, or None
  fault      \* the uncaught exception that ended the process, and its line

vars == <<pc, files, stdio, vendors, known, probs, warnings, dtype, vname,
          mname, mac, detected, choice, key, plan, do, todo, executed,
          outputs, notice, shown, fault>>

---------------------------------------------------------------------------
(* Text.                                                                   *)

\* The ASCII characters from the space (32) to the underscore (95) and
\* from "a" (97) to the tilde (126), in code order.
AsciiLow ==
  " !\"#$%&'()*+,-./0123456789:;<=>?@ABCDEFGHIJKLMNOPQRSTUVWXYZ[\\]^_"

AsciiHigh == "abcdefghijklmnopqrstuvwxyz{|}~"

\* ord(ch) for such a character, and for the line feed.
Ord ==
  [ch \in {SubSeq(AsciiLow, i, i) : i \in 1..Len(AsciiLow)}
            \cup {SubSeq(AsciiHigh, i, i) : i \in 1..Len(AsciiHigh)}
            \cup {"\n"} |->
     IF ch = "\n" THEN 10
     ELSE IF \E i \in 1..Len(AsciiLow) : SubSeq(AsciiLow, i, i) = ch
     THEN 31 + CHOOSE i \in 1..Len(AsciiLow) : SubSeq(AsciiLow, i, i) = ch
     ELSE 96 + CHOOSE i \in 1..Len(AsciiHigh) : SubSeq(AsciiHigh, i, i) = ch]

\* The str of an ASCII text: its code points.
S(text) == SubSeq([i \in 1..Len(text) |-> Ord[SubSeq(text, i, i)]], 1, Len(text))

\* Python's None where a str or None can stand.  -1 is no code point, so
\* this sequence is no str and compares unequal to every str.
None == <<-1>>

\* The empty str.
EmptyStr == <<>>

\* Truthiness of a str or None, as in "if not mac" and "mac or ...".
Truthy(s) == s # None /\ s # EmptyStr

\* x or y, for x a str or None.
Or(x, y) == IF Truthy(x) THEN x ELSE y

\* Whether code point c lies in one of the ranges of table R, which holds
\* the first and the last code point of each range.
InRanges(c, R) ==
  \E i \in 1..(Len(R) \div 2) : R[2 * i - 1] <= c /\ c <= R[2 * i]

\* The characters c.lower() changes, in code order (1433 characters), three
\* numbers for each: the character and the one or two code points of
\* c.lower(), 0 where there is no second one.
LowerTable ==
  <<
    65,97,0, 66,98,0, 67,99,0, 68,100,0, 69,101,0, 70,102,0, 71,103,0,
    72,104,0, 73,105,0, 74,106,0, 75,107,0, 76,108,0, 77,109,0, 78,110,0,
    79,111,0, 80,112,0, 81,113,0, 82,114,0, 83,115,0, 84,116,0, 85,117,0,
    86,118,0, 87,119,0, 88,120,0, 89,121,0, 90,122,0, 192,224,0, 193,225,0,
    194,226,0, 195,227,0, 196,228,0, 197,229,0, 198,230,0, 199,231,0,
    200,232,0, 201,233,0, 202,234,0, 203,235,0, 204,236,0, 205,237,0,
    206,238,0, 207,239,0, 208,240,0, 209,241,0, 210,242,0, 211,243,0,
    212,244,0, 213,245,0, 214,246,0, 216,248,0, 217,249,0, 218,250,0,
    219,251,0, 220,252,0, 221,253,0, 222,254,0, 256,257,0, 258,259,0,
    260,261,0, 262,263,0, 264,265,0, 266,267,0, 268,269,0, 270,271,0,
    272,273,0, 274,275,0, 276,277,0, 278,279,0, 280,281,0, 282,283,0,
    284,285,0, 286,287,0, 288,289,0, 290,291,0, 292,293,0, 294,295,0,
    296,297,0, 298,299,0, 300,301,0, 302,303,0, 304,105,775, 306,307,0,
    308,309,0, 310,311,0, 313,314,0, 315,316,0, 317,318,0, 319,320,0,
    321,322,0, 323,324,0, 325,326,0, 327,328,0, 330,331,0, 332,333,0,
    334,335,0, 336,337,0, 338,339,0, 340,341,0, 342,343,0, 344,345,0,
    346,347,0, 348,349,0, 350,351,0, 352,353,0, 354,355,0, 356,357,0,
    358,359,0, 360,361,0, 362,363,0, 364,365,0, 366,367,0, 368,369,0,
    370,371,0, 372,373,0, 374,375,0, 376,255,0, 377,378,0, 379,380,0,
    381,382,0, 385,595,0, 386,387,0, 388,389,0, 390,596,0, 391,392,0,
    393,598,0, 394,599,0, 395,396,0, 398,477,0, 399,601,0, 400,603,0,
    401,402,0, 403,608,0, 404,611,0, 406,617,0, 407,616,0, 408,409,0,
    412,623,0, 413,626,0, 415,629,0, 416,417,0, 418,419,0, 420,421,0,
    422,640,0, 423,424,0, 425,643,0, 428,429,0, 430,648,0, 431,432,0,
    433,650,0, 434,651,0, 435,436,0, 437,438,0, 439,658,0, 440,441,0,
    444,445,0, 452,454,0, 453,454,0, 455,457,0, 456,457,0, 458,460,0,
    459,460,0, 461,462,0, 463,464,0, 465,466,0, 467,468,0, 469,470,0,
    471,472,0, 473,474,0, 475,476,0, 478,479,0, 480,481,0, 482,483,0,
    484,485,0, 486,487,0, 488,489,0, 490,491,0, 492,493,0, 494,495,0,
    497,499,0, 498,499,0, 500,501,0, 502,405,0, 503,447,0, 504,505,0,
    506,507,0, 508,509,0, 510,511,0, 512,513,0, 514,515,0, 516,517,0,
    518,519,0, 520,521,0, 522,523,0, 524,525,0, 526,527,0, 528,529,0,
    530,531,0, 532,533,0, 534,535,0, 536,537,0, 538,539,0, 540,541,0,
    542,543,0, 544,414,0, 546,547,0, 548,549,0, 550,551,0, 552,553,0,
    554,555,0, 556,557,0, 558,559,0, 560,561,0, 562,563,0, 570,11365,0,
    571,572,0, 573,410,0, 574,11366,0, 577,578,0, 579,384,0, 580,649,0,
    581,652,0, 582,583,0, 584,585,0, 586,587,0, 588,589,0, 590,591,0,
    880,881,0, 882,883,0, 886,887,0, 895,1011,0, 902,940,0, 904,941,0,
    905,942,0, 906,943,0, 908,972,0, 910,973,0, 911,974,0, 913,945,0,
    914,946,0, 915,947,0, 916,948,0, 917,949,0, 918,950,0, 919,951,0,
    920,952,0, 921,953,0, 922,954,0, 923,955,0, 924,956,0, 925,957,0,
    926,958,0, 927,959,0, 928,960,0, 929,961,0, 931,963,0, 932,964,0,
    933,965,0, 934,966,0, 935,967,0, 936,968,0, 937,969,0, 938,970,0,
    939,971,0, 975,983,0, 984,985,0, 986,987,0, 988,989,0, 990,991,0,
    992,993,0, 994,995,0, 996,997,0, 998,999,0, 1000,1001,0, 1002,1003,0,
    1004,1005,0, 1006,1007,0, 1012,952,0, 1015,1016,0, 1017,1010,0,
    1018,1019,0, 1021,891,0, 1022,892,0, 1023,893,0, 1024,1104,0,
    1025,1105,0, 1026,1106,0, 1027,1107,0, 1028,1108,0, 1029,1109,0,
    1030,1110,0, 1031,1111,0, 1032,1112,0, 1033,1113,0, 1034,1114,0,
    1035,1115,0, 1036,1116,0, 1037,1117,0, 1038,1118,0, 1039,1119,0,
    1040,1072,0, 1041,1073,0, 1042,1074,0, 1043,1075,0, 1044,1076,0,
    1045,1077,0, 1046,1078,0, 1047,1079,0, 1048,1080,0, 1049,1081,0,
    1050,1082,0, 1051,1083,0, 1052,1084,0, 1053,1085,0, 1054,1086,0,
    1055,1087,0, 1056,1088,0, 1057,1089,0, 1058,1090,0, 1059,1091,0,
    1060,1092,0, 1061,1093,0, 1062,1094,0, 1063,1095,0, 1064,1096,0,
    1065,1097,0, 1066,1098,0, 1067,1099,0, 1068,1100,0, 1069,1101,0,
    1070,1102,0, 1071,1103,0, 1120,1121,0, 1122,1123,0, 1124,1125,0,
    1126,1127,0, 1128,1129,0, 1130,1131,0, 1132,1133,0, 1134,1135,0,
    1136,1137,0, 1138,1139,0, 1140,1141,0, 1142,1143,0, 1144,1145,0,
    1146,1147,0, 1148,1149,0, 1150,1151,0, 1152,1153,0, 1162,1163,0,
    1164,1165,0, 1166,1167,0, 1168,1169,0, 1170,1171,0, 1172,1173,0,
    1174,1175,0, 1176,1177,0, 1178,1179,0, 1180,1181,0, 1182,1183,0,
    1184,1185,0, 1186,1187,0, 1188,1189,0, 1190,1191,0, 1192,1193,0,
    1194,1195,0, 1196,1197,0, 1198,1199,0, 1200,1201,0, 1202,1203,0,
    1204,1205,0, 1206,1207,0, 1208,1209,0, 1210,1211,0, 1212,1213,0,
    1214,1215,0, 1216,1231,0, 1217,1218,0, 1219,1220,0, 1221,1222,0,
    1223,1224,0, 1225,1226,0, 1227,1228,0, 1229,1230,0, 1232,1233,0,
    1234,1235,0, 1236,1237,0, 1238,1239,0, 1240,1241,0, 1242,1243,0,
    1244,1245,0, 1246,1247,0, 1248,1249,0, 1250,1251,0, 1252,1253,0,
    1254,1255,0, 1256,1257,0, 1258,1259,0, 1260,1261,0, 1262,1263,0,
    1264,1265,0, 1266,1267,0, 1268,1269,0, 1270,1271,0, 1272,1273,0,
    1274,1275,0, 1276,1277,0, 1278,1279,0, 1280,1281,0, 1282,1283,0,
    1284,1285,0, 1286,1287,0, 1288,1289,0, 1290,1291,0, 1292,1293,0,
    1294,1295,0, 1296,1297,0, 1298,1299,0, 1300,1301,0, 1302,1303,0,
    1304,1305,0, 1306,1307,0, 1308,1309,0, 1310,1311,0, 1312,1313,0,
    1314,1315,0, 1316,1317,0, 1318,1319,0, 1320,1321,0, 1322,1323,0,
    1324,1325,0, 1326,1327,0, 1329,1377,0, 1330,1378,0, 1331,1379,0,
    1332,1380,0, 1333,1381,0, 1334,1382,0, 1335,1383,0, 1336,1384,0,
    1337,1385,0, 1338,1386,0, 1339,1387,0, 1340,1388,0, 1341,1389,0,
    1342,1390,0, 1343,1391,0, 1344,1392,0, 1345,1393,0, 1346,1394,0,
    1347,1395,0, 1348,1396,0, 1349,1397,0, 1350,1398,0, 1351,1399,0,
    1352,1400,0, 1353,1401,0, 1354,1402,0, 1355,1403,0, 1356,1404,0,
    1357,1405,0, 1358,1406,0, 1359,1407,0, 1360,1408,0, 1361,1409,0,
    1362,1410,0, 1363,1411,0, 1364,1412,0, 1365,1413,0, 1366,1414,0,
    4256,11520,0, 4257,11521,0, 4258,11522,0, 4259,11523,0, 4260,11524,0,
    4261,11525,0, 4262,11526,0, 4263,11527,0, 4264,11528,0, 4265,11529,0,
    4266,11530,0, 4267,11531,0, 4268,11532,0, 4269,11533,0, 4270,11534,0,
    4271,11535,0, 4272,11536,0, 4273,11537,0, 4274,11538,0, 4275,11539,0,
    4276,11540,0, 4277,11541,0, 4278,11542,0, 4279,11543,0, 4280,11544,0,
    4281,11545,0, 4282,11546,0, 4283,11547,0, 4284,11548,0, 4285,11549,0,
    4286,11550,0, 4287,11551,0, 4288,11552,0, 4289,11553,0, 4290,11554,0,
    4291,11555,0, 4292,11556,0, 4293,11557,0, 4295,11559,0, 4301,11565,0,
    5024,43888,0, 5025,43889,0, 5026,43890,0, 5027,43891,0, 5028,43892,0,
    5029,43893,0, 5030,43894,0, 5031,43895,0, 5032,43896,0, 5033,43897,0,
    5034,43898,0, 5035,43899,0, 5036,43900,0, 5037,43901,0, 5038,43902,0,
    5039,43903,0, 5040,43904,0, 5041,43905,0, 5042,43906,0, 5043,43907,0,
    5044,43908,0, 5045,43909,0, 5046,43910,0, 5047,43911,0, 5048,43912,0,
    5049,43913,0, 5050,43914,0, 5051,43915,0, 5052,43916,0, 5053,43917,0,
    5054,43918,0, 5055,43919,0, 5056,43920,0, 5057,43921,0, 5058,43922,0,
    5059,43923,0, 5060,43924,0, 5061,43925,0, 5062,43926,0, 5063,43927,0,
    5064,43928,0, 5065,43929,0, 5066,43930,0, 5067,43931,0, 5068,43932,0,
    5069,43933,0, 5070,43934,0, 5071,43935,0, 5072,43936,0, 5073,43937,0,
    5074,43938,0, 5075,43939,0, 5076,43940,0, 5077,43941,0, 5078,43942,0,
    5079,43943,0, 5080,43944,0, 5081,43945,0, 5082,43946,0, 5083,43947,0,
    5084,43948,0, 5085,43949,0, 5086,43950,0, 5087,43951,0, 5088,43952,0,
    5089,43953,0, 5090,43954,0, 5091,43955,0, 5092,43956,0, 5093,43957,0,
    5094,43958,0, 5095,43959,0, 5096,43960,0, 5097,43961,0, 5098,43962,0,
    5099,43963,0, 5100,43964,0, 5101,43965,0, 5102,43966,0, 5103,43967,0,
    5104,5112,0, 5105,5113,0, 5106,5114,0, 5107,5115,0, 5108,5116,0,
    5109,5117,0, 7312,4304,0, 7313,4305,0, 7314,4306,0, 7315,4307,0,
    7316,4308,0, 7317,4309,0, 7318,4310,0, 7319,4311,0, 7320,4312,0,
    7321,4313,0, 7322,4314,0, 7323,4315,0, 7324,4316,0, 7325,4317,0,
    7326,4318,0, 7327,4319,0, 7328,4320,0, 7329,4321,0, 7330,4322,0,
    7331,4323,0, 7332,4324,0, 7333,4325,0, 7334,4326,0, 7335,4327,0,
    7336,4328,0, 7337,4329,0, 7338,4330,0, 7339,4331,0, 7340,4332,0,
    7341,4333,0, 7342,4334,0, 7343,4335,0, 7344,4336,0, 7345,4337,0,
    7346,4338,0, 7347,4339,0, 7348,4340,0, 7349,4341,0, 7350,4342,0,
    7351,4343,0, 7352,4344,0, 7353,4345,0, 7354,4346,0, 7357,4349,0,
    7358,4350,0, 7359,4351,0, 7680,7681,0, 7682,7683,0, 7684,7685,0,
    7686,7687,0, 7688,7689,0, 7690,7691,0, 7692,7693,0, 7694,7695,0,
    7696,7697,0, 7698,7699,0, 7700,7701,0, 7702,7703,0, 7704,7705,0,
    7706,7707,0, 7708,7709,0, 7710,7711,0, 7712,7713,0, 7714,7715,0,
    7716,7717,0, 7718,7719,0, 7720,7721,0, 7722,7723,0, 7724,7725,0,
    7726,7727,0, 7728,7729,0, 7730,7731,0, 7732,7733,0, 7734,7735,0,
    7736,7737,0, 7738,7739,0, 7740,7741,0, 7742,7743,0, 7744,7745,0,
    7746,7747,0, 7748,7749,0, 7750,7751,0, 7752,7753,0, 7754,7755,0,
    7756,7757,0, 7758,7759,0, 7760,7761,0, 7762,7763,0, 7764,7765,0,
    7766,7767,0, 7768,7769,0, 7770,7771,0, 7772,7773,0, 7774,7775,0,
    7776,7777,0, 7778,7779,0, 7780,7781,0, 7782,7783,0, 7784,7785,0,
    7786,7787,0, 7788,7789,0, 7790,7791,0, 7792,7793,0, 7794,7795,0,
    7796,7797,0, 7798,7799,0, 7800,7801,0, 7802,7803,0, 7804,7805,0,
    7806,7807,0, 7808,7809,0, 7810,7811,0, 7812,7813,0, 7814,7815,0,
    7816,7817,0, 7818,7819,0, 7820,7821,0, 7822,7823,0, 7824,7825,0,
    7826,7827,0, 7828,7829,0, 7838,223,0, 7840,7841,0, 7842,7843,0,
    7844,7845,0, 7846,7847,0, 7848,7849,0, 7850,7851,0, 7852,7853,0,
    7854,7855,0, 7856,7857,0, 7858,7859,0, 7860,7861,0, 7862,7863,0,
    7864,7865,0, 7866,7867,0, 7868,7869,0, 7870,7871,0, 7872,7873,0,
    7874,7875,0, 7876,7877,0, 7878,7879,0, 7880,7881,0, 7882,7883,0,
    7884,7885,0, 7886,7887,0, 7888,7889,0, 7890,7891,0, 7892,7893,0,
    7894,7895,0, 7896,7897,0, 7898,7899,0, 7900,7901,0, 7902,7903,0,
    7904,7905,0, 7906,7907,0, 7908,7909,0, 7910,7911,0, 7912,7913,0,
    7914,7915,0, 7916,7917,0, 7918,7919,0, 7920,7921,0, 7922,7923,0,
    7924,7925,0, 7926,7927,0, 7928,7929,0, 7930,7931,0, 7932,7933,0,
    7934,7935,0, 7944,7936,0, 7945,7937,0, 7946,7938,0, 7947,7939,0,
    7948,7940,0, 7949,7941,0, 7950,7942,0, 7951,7943,0, 7960,7952,0,
    7961,7953,0, 7962,7954,0, 7963,7955,0, 7964,7956,0, 7965,7957,0,
    7976,7968,0, 7977,7969,0, 7978,7970,0, 7979,7971,0, 7980,7972,0,
    7981,7973,0, 7982,7974,0, 7983,7975,0, 7992,7984,0, 7993,7985,0,
    7994,7986,0, 7995,7987,0, 7996,7988,0, 7997,7989,0, 7998,7990,0,
    7999,7991,0, 8008,8000,0, 8009,8001,0, 8010,8002,0, 8011,8003,0,
    8012,8004,0, 8013,8005,0, 8025,8017,0, 8027,8019,0, 8029,8021,0,
    8031,8023,0, 8040,8032,0, 8041,8033,0, 8042,8034,0, 8043,8035,0,
    8044,8036,0, 8045,8037,0, 8046,8038,0, 8047,8039,0, 8072,8064,0,
    8073,8065,0, 8074,8066,0, 8075,8067,0, 8076,8068,0, 8077,8069,0,
    8078,8070,0, 8079,8071,0, 8088,8080,0, 8089,8081,0, 8090,8082,0,
    8091,8083,0, 8092,8084,0, 8093,8085,0, 8094,8086,0, 8095,8087,0,
    8104,8096,0, 8105,8097,0, 8106,8098,0, 8107,8099,0, 8108,8100,0,
    8109,8101,0, 8110,8102,0, 8111,8103,0, 8120,8112,0, 8121,8113,0,
    8122,8048,0, 8123,8049,0, 8124,8115,0, 8136,8050,0, 8137,8051,0,
    8138,8052,0, 8139,8053,0, 8140,8131,0, 8152,8144,0, 8153,8145,0,
    8154,8054,0, 8155,8055,0, 8168,8160,0, 8169,8161,0, 8170,8058,0,
    8171,8059,0, 8172,8165,0, 8184,8056,0, 8185,8057,0, 8186,8060,0,
    8187,8061,0, 8188,8179,0, 8486,969,0, 8490,107,0, 8491,229,0,
    8498,8526,0, 8544,8560,0, 8545,8561,0, 8546,8562,0, 8547,8563,0,
    8548,8564,0, 8549,8565,0, 8550,8566,0, 8551,8567,0, 8552,8568,0,
    8553,8569,0, 8554,8570,0, 8555,8571,0, 8556,8572,0, 8557,8573,0,
    8558,8574,0, 8559,8575,0, 8579,8580,0, 9398,9424,0, 9399,9425,0,
    9400,9426,0, 9401,9427,0, 9402,9428,0, 9403,9429,0, 9404,9430,0,
    9405,9431,0, 9406,9432,0, 9407,9433,0, 9408,9434,0, 9409,9435,0,
    9410,9436,0, 9411,9437,0, 9412,9438,0, 9413,9439,0, 9414,9440,0,
    9415,9441,0, 9416,9442,0, 9417,9443,0, 9418,9444,0, 9419,9445,0,
    9420,9446,0, 9421,9447,0, 9422,9448,0, 9423,9449,0, 11264,11312,0,
    11265,11313,0, 11266,11314,0, 11267,11315,0, 11268,11316,0,
    11269,11317,0, 11270,11318,0, 11271,11319,0, 11272,11320,0,
    11273,11321,0, 11274,11322,0, 11275,11323,0, 11276,11324,0,
    11277,11325,0, 11278,11326,0, 11279,11327,0, 11280,11328,0,
    11281,11329,0, 11282,11330,0, 11283,11331,0, 11284,11332,0,
    11285,11333,0, 11286,11334,0, 11287,11335,0, 11288,11336,0,
    11289,11337,0, 11290,11338,0, 11291,11339,0, 11292,11340,0,
    11293,11341,0, 11294,11342,0, 11295,11343,0, 11296,11344,0,
    11297,11345,0, 11298,11346,0, 11299,11347,0, 11300,11348,0,
    11301,11349,0, 11302,11350,0, 11303,11351,0, 11304,11352,0,
    11305,11353,0, 11306,11354,0, 11307,11355,0, 11308,11356,0,
    11309,11357,0, 11310,11358,0, 11311,11359,0, 11360,11361,0, 11362,619,0,
    11363,7549,0, 11364,637,0, 11367,11368,0, 11369,11370,0, 11371,11372,0,
    11373,593,0, 11374,625,0, 11375,592,0, 11376,594,0, 11378,11379,0,
    11381,11382,0, 11390,575,0, 11391,576,0, 11392,11393,0, 11394,11395,0,
    11396,11397,0, 11398,11399,0, 11400,11401,0, 11402,11403,0,
    11404,11405,0, 11406,11407,0, 11408,11409,0, 11410,11411,0,
    11412,11413,0, 11414,11415,0, 11416,11417,0, 11418,11419,0,
    11420,11421,0, 11422,11423,0, 11424,11425,0, 11426,11427,0,
    11428,11429,0, 11430,11431,0, 11432,11433,0, 11434,11435,0,
    11436,11437,0, 11438,11439,0, 11440,11441,0, 11442,11443,0,
    11444,11445,0, 11446,11447,0, 11448,11449,0, 11450,11451,0,
    11452,11453,0, 11454,11455,0, 11456,11457,0, 11458,11459,0,
    11460,11461,0, 11462,11463,0, 11464,11465,0, 11466,11467,0,
    11468,11469,0, 11470,11471,0, 11472,11473,0, 11474,11475,0,
    11476,11477,0, 11478,11479,0, 11480,11481,0, 11482,11483,0,
    11484,11485,0, 11486,11487,0, 11488,11489,0, 11490,11491,0,
    11499,11500,0, 11501,11502,0, 11506,11507,0, 42560,42561,0,
    42562,42563,0, 42564,42565,0, 42566,42567,0, 42568,42569,0,
    42570,42571,0, 42572,42573,0, 42574,42575,0, 42576,42577,0,
    42578,42579,0, 42580,42581,0, 42582,42583,0, 42584,42585,0,
    42586,42587,0, 42588,42589,0, 42590,42591,0, 42592,42593,0,
    42594,42595,0, 42596,42597,0, 42598,42599,0, 42600,42601,0,
    42602,42603,0, 42604,42605,0, 42624,42625,0, 42626,42627,0,
    42628,42629,0, 42630,42631,0, 42632,42633,0, 42634,42635,0,
    42636,42637,0, 42638,42639,0, 42640,42641,0, 42642,42643,0,
    42644,42645,0, 42646,42647,0, 42648,42649,0, 42650,42651,0,
    42786,42787,0, 42788,42789,0, 42790,42791,0, 42792,42793,0,
    42794,42795,0, 42796,42797,0, 42798,42799,0, 42802,42803,0,
    42804,42805,0, 42806,42807,0, 42808,42809,0, 42810,42811,0,
    42812,42813,0, 42814,42815,0, 42816,42817,0, 42818,42819,0,
    42820,42821,0, 42822,42823,0, 42824,42825,0, 42826,42827,0,
    42828,42829,0, 42830,42831,0, 42832,42833,0, 42834,42835,0,
    42836,42837,0, 42838,42839,0, 42840,42841,0, 42842,42843,0,
    42844,42845,0, 42846,42847,0, 42848,42849,0, 42850,42851,0,
    42852,42853,0, 42854,42855,0, 42856,42857,0, 42858,42859,0,
    42860,42861,0, 42862,42863,0, 42873,42874,0, 42875,42876,0,
    42877,7545,0, 42878,42879,0, 42880,42881,0, 42882,42883,0,
    42884,42885,0, 42886,42887,0, 42891,42892,0, 42893,613,0, 42896,42897,0,
    42898,42899,0, 42902,42903,0, 42904,42905,0, 42906,42907,0,
    42908,42909,0, 42910,42911,0, 42912,42913,0, 42914,42915,0,
    42916,42917,0, 42918,42919,0, 42920,42921,0, 42922,614,0, 42923,604,0,
    42924,609,0, 42925,620,0, 42926,618,0, 42928,670,0, 42929,647,0,
    42930,669,0, 42931,43859,0, 42932,42933,0, 42934,42935,0, 42936,42937,0,
    42938,42939,0, 42940,42941,0, 42942,42943,0, 42944,42945,0,
    42946,42947,0, 42948,42900,0, 42949,642,0, 42950,7566,0, 42951,42952,0,
    42953,42954,0, 42960,42961,0, 42966,42967,0, 42968,42969,0,
    42997,42998,0, 65313,65345,0, 65314,65346,0, 65315,65347,0,
    65316,65348,0, 65317,65349,0, 65318,65350,0, 65319,65351,0,
    65320,65352,0, 65321,65353,0, 65322,65354,0, 65323,65355,0,
    65324,65356,0, 65325,65357,0, 65326,65358,0, 65327,65359,0,
    65328,65360,0, 65329,65361,0, 65330,65362,0, 65331,65363,0,
    65332,65364,0, 65333,65365,0, 65334,65366,0, 65335,65367,0,
    65336,65368,0, 65337,65369,0, 65338,65370,0, 66560,66600,0,
    66561,66601,0, 66562,66602,0, 66563,66603,0, 66564,66604,0,
    66565,66605,0, 66566,66606,0, 66567,66607,0, 66568,66608,0,
    66569,66609,0, 66570,66610,0, 66571,66611,0, 66572,66612,0,
    66573,66613,0, 66574,66614,0, 66575,66615,0, 66576,66616,0,
    66577,66617,0, 66578,66618,0, 66579,66619,0, 66580,66620,0,
    66581,66621,0, 66582,66622,0, 66583,66623,0, 66584,66624,0,
    66585,66625,0, 66586,66626,0, 66587,66627,0, 66588,66628,0,
    66589,66629,0, 66590,66630,0, 66591,66631,0, 66592,66632,0,
    66593,66633,0, 66594,66634,0, 66595,66635,0, 66596,66636,0,
    66597,66637,0, 66598,66638,0, 66599,66639,0, 66736,66776,0,
    66737,66777,0, 66738,66778,0, 66739,66779,0, 66740,66780,0,
    66741,66781,0, 66742,66782,0, 66743,66783,0, 66744,66784,0,
    66745,66785,0, 66746,66786,0, 66747,66787,0, 66748,66788,0,
    66749,66789,0, 66750,66790,0, 66751,66791,0, 66752,66792,0,
    66753,66793,0, 66754,66794,0, 66755,66795,0, 66756,66796,0,
    66757,66797,0, 66758,66798,0, 66759,66799,0, 66760,66800,0,
    66761,66801,0, 66762,66802,0, 66763,66803,0, 66764,66804,0,
    66765,66805,0, 66766,66806,0, 66767,66807,0, 66768,66808,0,
    66769,66809,0, 66770,66810,0, 66771,66811,0, 66928,66967,0,
    66929,66968,0, 66930,66969,0, 66931,66970,0, 66932,66971,0,
    66933,66972,0, 66934,66973,0, 66935,66974,0, 66936,66975,0,
    66937,66976,0, 66938,66977,0, 66940,66979,0, 66941,66980,0,
    66942,66981,0, 66943,66982,0, 66944,66983,0, 66945,66984,0,
    66946,66985,0, 66947,66986,0, 66948,66987,0, 66949,66988,0,
    66950,66989,0, 66951,66990,0, 66952,66991,0, 66953,66992,0,
    66954,66993,0, 66956,66995,0, 66957,66996,0, 66958,66997,0,
    66959,66998,0, 66960,66999,0, 66961,67000,0, 66962,67001,0,
    66964,67003,0, 66965,67004,0, 68736,68800,0, 68737,68801,0,
    68738,68802,0, 68739,68803,0, 68740,68804,0, 68741,68805,0,
    68742,68806,0, 68743,68807,0, 68744,68808,0, 68745,68809,0,
    68746,68810,0, 68747,68811,0, 68748,68812,0, 68749,68813,0,
    68750,68814,0, 68751,68815,0, 68752,68816,0, 68753,68817,0,
    68754,68818,0, 68755,68819,0, 68756,68820,0, 68757,68821,0,
    68758,68822,0, 68759,68823,0, 68760,68824,0, 68761,68825,0,
    68762,68826,0, 68763,68827,0, 68764,68828,0, 68765,68829,0,
    68766,68830,0, 68767,68831,0, 68768,68832,0, 68769,68833,0,
    68770,68834,0, 68771,68835,0, 68772,68836,0, 68773,68837,0,
    68774,68838,0, 68775,68839,0, 68776,68840,0, 68777,68841,0,
    68778,68842,0, 68779,68843,0, 68780,68844,0, 68781,68845,0,
    68782,68846,0, 68783,68847,0, 68784,68848,0, 68785,68849,0,
    68786,68850,0, 71840,71872,0, 71841,71873,0, 71842,71874,0,
    71843,71875,0, 71844,71876,0, 71845,71877,0, 71846,71878,0,
    71847,71879,0, 71848,71880,0, 71849,71881,0, 71850,71882,0,
    71851,71883,0, 71852,71884,0, 71853,71885,0, 71854,71886,0,
    71855,71887,0, 71856,71888,0, 71857,71889,0, 71858,71890,0,
    71859,71891,0, 71860,71892,0, 71861,71893,0, 71862,71894,0,
    71863,71895,0, 71864,71896,0, 71865,71897,0, 71866,71898,0,
    71867,71899,0, 71868,71900,0, 71869,71901,0, 71870,71902,0,
    71871,71903,0, 93760,93792,0, 93761,93793,0, 93762,93794,0,
    93763,93795,0, 93764,93796,0, 93765,93797,0, 93766,93798,0,
    93767,93799,0, 93768,93800,0, 93769,93801,0, 93770,93802,0,
    93771,93803,0, 93772,93804,0, 93773,93805,0, 93774,93806,0,
    93775,93807,0, 93776,93808,0, 93777,93809,0, 93778,93810,0,
    93779,93811,0, 93780,93812,0, 93781,93813,0, 93782,93814,0,
    93783,93815,0, 93784,93816,0, 93785,93817,0, 93786,93818,0,
    93787,93819,0, 93788,93820,0, 93789,93821,0, 93790,93822,0,
    93791,93823,0, 125184,125218,0, 125185,125219,0, 125186,125220,0,
    125187,125221,0, 125188,125222,0, 125189,125223,0, 125190,125224,0,
    125191,125225,0, 125192,125226,0, 125193,125227,0, 125194,125228,0,
    125195,125229,0, 125196,125230,0, 125197,125231,0, 125198,125232,0,
    125199,125233,0, 125200,125234,0, 125201,125235,0, 125202,125236,0,
    125203,125237,0, 125204,125238,0, 125205,125239,0, 125206,125240,0,
    125207,125241,0, 125208,125242,0, 125209,125243,0, 125210,125244,0,
    125211,125245,0, 125212,125246,0, 125213,125247,0, 125214,125248,0,
    125215,125249,0, 125216,125250,0, 125217,125251,0
  >>

\* The characters c.upper() changes, in code order (1525 characters), four
\* numbers for each: the character and the one to three code points of
\* c.upper(), 0 where there is no second or third one.
UpperTable ==
  <<
    97,65,0,0, 98,66,0,0, 99,67,0,0, 100,68,0,0, 101,69,0,0, 102,70,0,0,
    103,71,0,0, 104,72,0,0, 105,73,0,0, 106,74,0,0, 107,75,0,0, 108,76,0,0,
    109,77,0,0, 110,78,0,0, 111,79,0,0, 112,80,0,0, 113,81,0,0, 114,82,0,0,
    115,83,0,0, 116,84,0,0, 117,85,0,0, 118,86,0,0, 119,87,0,0, 120,88,0,0,
    121,89,0,0, 122,90,0,0, 181,924,0,0, 223,83,83,0, 224,192,0,0,
    225,193,0,0, 226,194,0,0, 227,195,0,0, 228,196,0,0, 229,197,0,0,
    230,198,0,0, 231,199,0,0, 232,200,0,0, 233,201,0,0, 234,202,0,0,
    235,203,0,0, 236,204,0,0, 237,205,0,0, 238,206,0,0, 239,207,0,0,
    240,208,0,0, 241,209,0,0, 242,210,0,0, 243,211,0,0, 244,212,0,0,
    245,213,0,0, 246,214,0,0, 248,216,0,0, 249,217,0,0, 250,218,0,0,
    251,219,0,0, 252,220,0,0, 253,221,0,0, 254,222,0,0, 255,376,0,0,
    257,256,0,0, 259,258,0,0, 261,260,0,0, 263,262,0,0, 265,264,0,0,
    267,266,0,0, 269,268,0,0, 271,270,0,0, 273,272,0,0, 275,274,0,0,
    277,276,0,0, 279,278,0,0, 281,280,0,0, 283,282,0,0, 285,284,0,0,
    287,286,0,0, 289,288,0,0, 291,290,0,0, 293,292,0,0, 295,294,0,0,
    297,296,0,0, 299,298,0,0, 301,300,0,0, 303,302,0,0, 305,73,0,0,
    307,306,0,0, 309,308,0,0, 311,310,0,0, 314,313,0,0, 316,315,0,0,
    318,317,0,0, 320,319,0,0, 322,321,0,0, 324,323,0,0, 326,325,0,0,
    328,327,0,0, 329,700,78,0, 331,330,0,0, 333,332,0,0, 335,334,0,0,
    337,336,0,0, 339,338,0,0, 341,340,0,0, 343,342,0,0, 345,344,0,0,
    347,346,0,0, 349,348,0,0, 351,350,0,0, 353,352,0,0, 355,354,0,0,
    357,356,0,0, 359,358,0,0, 361,360,0,0, 363,362,0,0, 365,364,0,0,
    367,366,0,0, 369,368,0,0, 371,370,0,0, 373,372,0,0, 375,374,0,0,
    378,377,0,0, 380,379,0,0, 382,381,0,0, 383,83,0,0, 384,579,0,0,
    387,386,0,0, 389,388,0,0, 392,391,0,0, 396,395,0,0, 402,401,0,0,
    405,502,0,0, 409,408,0,0, 410,573,0,0, 414,544,0,0, 417,416,0,0,
    419,418,0,0, 421,420,0,0, 424,423,0,0, 429,428,0,0, 432,431,0,0,
    436,435,0,0, 438,437,0,0, 441,440,0,0, 445,444,0,0, 447,503,0,0,
    453,452,0,0, 454,452,0,0, 456,455,0,0, 457,455,0,0, 459,458,0,0,
    460,458,0,0, 462,461,0,0, 464,463,0,0, 466,465,0,0, 468,467,0,0,
    470,469,0,0, 472,471,0,0, 474,473,0,0, 476,475,0,0, 477,398,0,0,
    479,478,0,0, 481,480,0,0, 483,482,0,0, 485,484,0,0, 487,486,0,0,
    489,488,0,0, 491,490,0,0, 493,492,0,0, 495,494,0,0, 496,74,780,0,
    498,497,0,0, 499,497,0,0, 501,500,0,0, 505,504,0,0, 507,506,0,0,
    509,508,0,0, 511,510,0,0, 513,512,0,0, 515,514,0,0, 517,516,0,0,
    519,518,0,0, 521,520,0,0, 523,522,0,0, 525,524,0,0, 527,526,0,0,
    529,528,0,0, 531,530,0,0, 533,532,0,0, 535,534,0,0, 537,536,0,0,
    539,538,0,0, 541,540,0,0, 543,542,0,0, 547,546,0,0, 549,548,0,0,
    551,550,0,0, 553,552,0,0, 555,554,0,0, 557,556,0,0, 559,558,0,0,
    561,560,0,0, 563,562,0,0, 572,571,0,0, 575,11390,0,0, 576,11391,0,0,
    578,577,0,0, 583,582,0,0, 585,584,0,0, 587,586,0,0, 589,588,0,0,
    591,590,0,0, 592,11375,0,0, 593,11373,0,0, 594,11376,0,0, 595,385,0,0,
    596,390,0,0, 598,393,0,0, 599,394,0,0, 601,399,0,0, 603,400,0,0,
    604,42923,0,0, 608,403,0,0, 609,42924,0,0, 611,404,0,0, 613,42893,0,0,
    614,42922,0,0, 616,407,0,0, 617,406,0,0, 618,42926,0,0, 619,11362,0,0,
    620,42925,0,0, 623,412,0,0, 625,11374,0,0, 626,413,0,0, 629,415,0,0,
    637,11364,0,0, 640,422,0,0, 642,42949,0,0, 643,425,0,0, 647,42929,0,0,
    648,430,0,0, 649,580,0,0, 650,433,0,0, 651,434,0,0, 652,581,0,0,
    658,439,0,0, 669,42930,0,0, 670,42928,0,0, 837,921,0,0, 881,880,0,0,
    883,882,0,0, 887,886,0,0, 891,1021,0,0, 892,1022,0,0, 893,1023,0,0,
    912,921,776,769, 940,902,0,0, 941,904,0,0, 942,905,0,0, 943,906,0,0,
    944,933,776,769, 945,913,0,0, 946,914,0,0, 947,915,0,0, 948,916,0,0,
    949,917,0,0, 950,918,0,0, 951,919,0,0, 952,920,0,0, 953,921,0,0,
    954,922,0,0, 955,923,0,0, 956,924,0,0, 957,925,0,0, 958,926,0,0,
    959,927,0,0, 960,928,0,0, 961,929,0,0, 962,931,0,0, 963,931,0,0,
    964,932,0,0, 965,933,0,0, 966,934,0,0, 967,935,0,0, 968,936,0,0,
    969,937,0,0, 970,938,0,0, 971,939,0,0, 972,908,0,0, 973,910,0,0,
    974,911,0,0, 976,914,0,0, 977,920,0,0, 981,934,0,0, 982,928,0,0,
    983,975,0,0, 985,984,0,0, 987,986,0,0, 989,988,0,0, 991,990,0,0,
    993,992,0,0, 995,994,0,0, 997,996,0,0, 999,998,0,0, 1001,1000,0,0,
    1003,1002,0,0, 1005,1004,0,0, 1007,1006,0,0, 1008,922,0,0, 1009,929,0,0,
    1010,1017,0,0, 1011,895,0,0, 1013,917,0,0, 1016,1015,0,0, 1019,1018,0,0,
    1072,1040,0,0, 1073,1041,0,0, 1074,1042,0,0, 1075,1043,0,0,
    1076,1044,0,0, 1077,1045,0,0, 1078,1046,0,0, 1079,1047,0,0,
    1080,1048,0,0, 1081,1049,0,0, 1082,1050,0,0, 1083,1051,0,0,
    1084,1052,0,0, 1085,1053,0,0, 1086,1054,0,0, 1087,1055,0,0,
    1088,1056,0,0, 1089,1057,0,0, 1090,1058,0,0, 1091,1059,0,0,
    1092,1060,0,0, 1093,1061,0,0, 1094,1062,0,0, 1095,1063,0,0,
    1096,1064,0,0, 1097,1065,0,0, 1098,1066,0,0, 1099,1067,0,0,
    1100,1068,0,0, 1101,1069,0,0, 1102,1070,0,0, 1103,1071,0,0,
    1104,1024,0,0, 1105,1025,0,0, 1106,1026,0,0, 1107,1027,0,0,
    1108,1028,0,0, 1109,1029,0,0, 1110,1030,0,0, 1111,1031,0,0,
    1112,1032,0,0, 1113,1033,0,0, 1114,1034,0,0, 1115,1035,0,0,
    1116,1036,0,0, 1117,1037,0,0, 1118,1038,0,0, 1119,1039,0,0,
    1121,1120,0,0, 1123,1122,0,0, 1125,1124,0,0, 1127,1126,0,0,
    1129,1128,0,0, 1131,1130,0,0, 1133,1132,0,0, 1135,1134,0,0,
    1137,1136,0,0, 1139,1138,0,0, 1141,1140,0,0, 1143,1142,0,0,
    1145,1144,0,0, 1147,1146,0,0, 1149,1148,0,0, 1151,1150,0,0,
    1153,1152,0,0, 1163,1162,0,0, 1165,1164,0,0, 1167,1166,0,0,
    1169,1168,0,0, 1171,1170,0,0, 1173,1172,0,0, 1175,1174,0,0,
    1177,1176,0,0, 1179,1178,0,0, 1181,1180,0,0, 1183,1182,0,0,
    1185,1184,0,0, 1187,1186,0,0, 1189,1188,0,0, 1191,1190,0,0,
    1193,1192,0,0, 1195,1194,0,0, 1197,1196,0,0, 1199,1198,0,0,
    1201,1200,0,0, 1203,1202,0,0, 1205,1204,0,0, 1207,1206,0,0,
    1209,1208,0,0, 1211,1210,0,0, 1213,1212,0,0, 1215,1214,0,0,
    1218,1217,0,0, 1220,1219,0,0, 1222,1221,0,0, 1224,1223,0,0,
    1226,1225,0,0, 1228,1227,0,0, 1230,1229,0,0, 1231,1216,0,0,
    1233,1232,0,0, 1235,1234,0,0, 1237,1236,0,0, 1239,1238,0,0,
    1241,1240,0,0, 1243,1242,0,0, 1245,1244,0,0, 1247,1246,0,0,
    1249,1248,0,0, 1251,1250,0,0, 1253,1252,0,0, 1255,1254,0,0,
    1257,1256,0,0, 1259,1258,0,0, 1261,1260,0,0, 1263,1262,0,0,
    1265,1264,0,0, 1267,1266,0,0, 1269,1268,0,0, 1271,1270,0,0,
    1273,1272,0,0, 1275,1274,0,0, 1277,1276,0,0, 1279,1278,0,0,
    1281,1280,0,0, 1283,1282,0,0, 1285,1284,0,0, 1287,1286,0,0,
    1289,1288,0,0, 1291,1290,0,0, 1293,1292,0,0, 1295,1294,0,0,
    1297,1296,0,0, 1299,1298,0,0, 1301,1300,0,0, 1303,1302,0,0,
    1305,1304,0,0, 1307,1306,0,0, 1309,1308,0,0, 1311,1310,0,0,
    1313,1312,0,0, 1315,1314,0,0, 1317,1316,0,0, 1319,1318,0,0,
    1321,1320,0,0, 1323,1322,0,0, 1325,1324,0,0, 1327,1326,0,0,
    1377,1329,0,0, 1378,1330,0,0, 1379,1331,0,0, 1380,1332,0,0,
    1381,1333,0,0, 1382,1334,0,0, 1383,1335,0,0, 1384,1336,0,0,
    1385,1337,0,0, 1386,1338,0,0, 1387,1339,0,0, 1388,1340,0,0,
    1389,1341,0,0, 1390,1342,0,0, 1391,1343,0,0, 1392,1344,0,0,
    1393,1345,0,0, 1394,1346,0,0, 1395,1347,0,0, 1396,1348,0,0,
    1397,1349,0,0, 1398,1350,0,0, 1399,1351,0,0, 1400,1352,0,0,
    1401,1353,0,0, 1402,1354,0,0, 1403,1355,0,0, 1404,1356,0,0,
    1405,1357,0,0, 1406,1358,0,0, 1407,1359,0,0, 1408,1360,0,0,
    1409,1361,0,0, 1410,1362,0,0, 1411,1363,0,0, 1412,1364,0,0,
    1413,1365,0,0, 1414,1366,0,0, 1415,1333,1362,0, 4304,7312,0,0,
    4305,7313,0,0, 4306,7314,0,0, 4307,7315,0,0, 4308,7316,0,0,
    4309,7317,0,0, 4310,7318,0,0, 4311,7319,0,0, 4312,7320,0,0,
    4313,7321,0,0, 4314,7322,0,0, 4315,7323,0,0, 4316,7324,0,0,
    4317,7325,0,0, 4318,7326,0,0, 4319,7327,0,0, 4320,7328,0,0,
    4321,7329,0,0, 4322,7330,0,0, 4323,7331,0,0, 4324,7332,0,0,
    4325,7333,0,0, 4326,7334,0,0, 4327,7335,0,0, 4328,7336,0,0,
    4329,7337,0,0, 4330,7338,0,0, 4331,7339,0,0, 4332,7340,0,0,
    4333,7341,0,0, 4334,7342,0,0, 4335,7343,0,0, 4336,7344,0,0,
    4337,7345,0,0, 4338,7346,0,0, 4339,7347,0,0, 4340,7348,0,0,
    4341,7349,0,0, 4342,7350,0,0, 4343,7351,0,0, 4344,7352,0,0,
    4345,7353,0,0, 4346,7354,0,0, 4349,7357,0,0, 4350,7358,0,0,
    4351,7359,0,0, 5112,5104,0,0, 5113,5105,0,0, 5114,5106,0,0,
    5115,5107,0,0, 5116,5108,0,0, 5117,5109,0,0, 7296,1042,0,0,
    7297,1044,0,0, 7298,1054,0,0, 7299,1057,0,0, 7300,1058,0,0,
    7301,1058,0,0, 7302,1066,0,0, 7303,1122,0,0, 7304,42570,0,0,
    7545,42877,0,0, 7549,11363,0,0, 7566,42950,0,0, 7681,7680,0,0,
    7683,7682,0,0, 7685,7684,0,0, 7687,7686,0,0, 7689,7688,0,0,
    7691,7690,0,0, 7693,7692,0,0, 7695,7694,0,0, 7697,7696,0,0,
    7699,7698,0,0, 7701,7700,0,0, 7703,7702,0,0, 7705,7704,0,0,
    7707,7706,0,0, 7709,7708,0,0, 7711,7710,0,0, 7713,7712,0,0,
    7715,7714,0,0, 7717,7716,0,0, 7719,7718,0,0, 7721,7720,0,0,
    7723,7722,0,0, 7725,7724,0,0, 7727,7726,0,0, 7729,7728,0,0,
    7731,7730,0,0, 7733,7732,0,0, 7735,7734,0,0, 7737,7736,0,0,
    7739,7738,0,0, 7741,7740,0,0, 7743,7742,0,0, 7745,7744,0,0,
    7747,7746,0,0, 7749,7748,0,0, 7751,7750,0,0, 7753,7752,0,0,
    7755,7754,0,0, 7757,7756,0,0, 7759,7758,0,0, 7761,7760,0,0,
    7763,7762,0,0, 7765,7764,0,0, 7767,7766,0,0, 7769,7768,0,0,
    7771,7770,0,0, 7773,7772,0,0, 7775,7774,0,0, 7777,7776,0,0,
    7779,7778,0,0, 7781,7780,0,0, 7783,7782,0,0, 7785,7784,0,0,
    7787,7786,0,0, 7789,7788,0,0, 7791,7790,0,0, 7793,7792,0,0,
    7795,7794,0,0, 7797,7796,0,0, 7799,7798,0,0, 7801,7800,0,0,
    7803,7802,0,0, 7805,7804,0,0, 7807,7806,0,0, 7809,7808,0,0,
    7811,7810,0,0, 7813,7812,0,0, 7815,7814,0,0, 7817,7816,0,0,
    7819,7818,0,0, 7821,7820,0,0, 7823,7822,0,0, 7825,7824,0,0,
    7827,7826,0,0, 7829,7828,0,0, 7830,72,817,0, 7831,84,776,0,
    7832,87,778,0, 7833,89,778,0, 7834,65,702,0, 7835,7776,0,0,
    7841,7840,0,0, 7843,7842,0,0, 7845,7844,0,0, 7847,7846,0,0,
    7849,7848,0,0, 7851,7850,0,0, 7853,7852,0,0, 7855,7854,0,0,
    7857,7856,0,0, 7859,7858,0,0, 7861,7860,0,0, 7863,7862,0,0,
    7865,7864,0,0, 7867,7866,0,0, 7869,7868,0,0, 7871,7870,0,0,
    7873,7872,0,0, 7875,7874,0,0, 7877,7876,0,0, 7879,7878,0,0,
    7881,7880,0,0, 7883,7882,0,0, 7885,7884,0,0, 7887,7886,0,0,
    7889,7888,0,0, 7891,7890,0,0, 7893,7892,0,0, 7895,7894,0,0,
    7897,7896,0,0, 7899,7898,0,0, 7901,7900,0,0, 7903,7902,0,0,
    7905,7904,0,0, 7907,7906,0,0, 7909,7908,0,0, 7911,7910,0,0,
    7913,7912,0,0, 7915,7914,0,0, 7917,7916,0,0, 7919,7918,0,0,
    7921,7920,0,0, 7923,7922,0,0, 7925,7924,0,0, 7927,7926,0,0,
    7929,7928,0,0, 7931,7930,0,0, 7933,7932,0,0, 7935,7934,0,0,
    7936,7944,0,0, 7937,7945,0,0, 7938,7946,0,0, 7939,7947,0,0,
    7940,7948,0,0, 7941,7949,0,0, 7942,7950,0,0, 7943,7951,0,0,
    7952,7960,0,0, 7953,7961,0,0, 7954,7962,0,0, 7955,7963,0,0,
    7956,7964,0,0, 7957,7965,0,0, 7968,7976,0,0, 7969,7977,0,0,
    7970,7978,0,0, 7971,7979,0,0, 7972,7980,0,0, 7973,7981,0,0,
    7974,7982,0,0, 7975,7983,0,0, 7984,7992,0,0, 7985,7993,0,0,
    7986,7994,0,0, 7987,7995,0,0, 7988,7996,0,0, 7989,7997,0,0,
    7990,7998,0,0, 7991,7999,0,0, 8000,8008,0,0, 8001,8009,0,0,
    8002,8010,0,0, 8003,8011,0,0, 8004,8012,0,0, 8005,8013,0,0,
    8016,933,787,0, 8017,8025,0,0, 8018,933,787,768, 8019,8027,0,0,
    8020,933,787,769, 8021,8029,0,0, 8022,933,787,834, 8023,8031,0,0,
    8032,8040,0,0, 8033,8041,0,0, 8034,8042,0,0, 8035,8043,0,0,
    8036,8044,0,0, 8037,8045,0,0, 8038,8046,0,0, 8039,8047,0,0,
    8048,8122,0,0, 8049,8123,0,0, 8050,8136,0,0, 8051,8137,0,0,
    8052,8138,0,0, 8053,8139,0,0, 8054,8154,0,0, 8055,8155,0,0,
    8056,8184,0,0, 8057,8185,0,0, 8058,8170,0,0, 8059,8171,0,0,
    8060,8186,0,0, 8061,8187,0,0, 8064,7944,921,0, 8065,7945,921,0,
    8066,7946,921,0, 8067,7947,921,0, 8068,7948,921,0, 8069,7949,921,0,
    8070,7950,921,0, 8071,7951,921,0, 8072,7944,921,0, 8073,7945,921,0,
    8074,7946,921,0, 8075,7947,921,0, 8076,7948,921,0, 8077,7949,921,0,
    8078,7950,921,0, 8079,7951,921,0, 8080,7976,921,0, 8081,7977,921,0,
    8082,7978,921,0, 8083,7979,921,0, 8084,7980,921,0, 8085,7981,921,0,
    8086,7982,921,0, 8087,7983,921,0, 8088,7976,921,0, 8089,7977,921,0,
    8090,7978,921,0, 8091,7979,921,0, 8092,7980,921,0, 8093,7981,921,0,
    8094,7982,921,0, 8095,7983,921,0, 8096,8040,921,0, 8097,8041,921,0,
    8098,8042,921,0, 8099,8043,921,0, 8100,8044,921,0, 8101,8045,921,0,
    8102,8046,921,0, 8103,8047,921,0, 8104,8040,921,0, 8105,8041,921,0,
    8106,8042,921,0, 8107,8043,921,0, 8108,8044,921,0, 8109,8045,921,0,
    8110,8046,921,0, 8111,8047,921,0, 8112,8120,0,0, 8113,8121,0,0,
    8114,8122,921,0, 8115,913,921,0, 8116,902,921,0, 8118,913,834,0,
    8119,913,834,921, 8124,913,921,0, 8126,921,0,0, 8130,8138,921,0,
    8131,919,921,0, 8132,905,921,0, 8134,919,834,0, 8135,919,834,921,
    8140,919,921,0, 8144,8152,0,0, 8145,8153,0,0, 8146,921,776,768,
    8147,921,776,769, 8150,921,834,0, 8151,921,776,834, 8160,8168,0,0,
    8161,8169,0,0, 8162,933,776,768, 8163,933,776,769, 8164,929,787,0,
    8165,8172,0,0, 8166,933,834,0, 8167,933,776,834, 8178,8186,921,0,
    8179,937,921,0, 8180,911,921,0, 8182,937,834,0, 8183,937,834,921,
    8188,937,921,0, 8526,8498,0,0, 8560,8544,0,0, 8561,8545,0,0,
    8562,8546,0,0, 8563,8547,0,0, 8564,8548,0,0, 8565,8549,0,0,
    8566,8550,0,0, 8567,8551,0,0, 8568,8552,0,0, 8569,8553,0,0,
    8570,8554,0,0, 8571,8555,0,0, 8572,8556,0,0, 8573,8557,0,0,
    8574,8558,0,0, 8575,8559,0,0, 8580,8579,0,0, 9424,9398,0,0,
    9425,9399,0,0, 9426,9400,0,0, 9427,9401,0,0, 9428,9402,0,0,
    9429,9403,0,0, 9430,9404,0,0, 9431,9405,0,0, 9432,9406,0,0,
    9433,9407,0,0, 9434,9408,0,0, 9435,9409,0,0, 9436,9410,0,0,
    9437,9411,0,0, 9438,9412,0,0, 9439,9413,0,0, 9440,9414,0,0,
    9441,9415,0,0, 9442,9416,0,0, 9443,9417,0,0, 9444,9418,0,0,
    9445,9419,0,0, 9446,9420,0,0, 9447,9421,0,0, 9448,9422,0,0,
    9449,9423,0,0, 11312,11264,0,0, 11313,11265,0,0, 11314,11266,0,0,
    11315,11267,0,0, 11316,11268,0,0, 11317,11269,0,0, 11318,11270,0,0,
    11319,11271,0,0, 11320,11272,0,0, 11321,11273,0,0, 11322,11274,0,0,
    11323,11275,0,0, 11324,11276,0,0, 11325,11277,0,0, 11326,11278,0,0,
    11327,11279,0,0, 11328,11280,0,0, 11329,11281,0,0, 11330,11282,0,0,
    11331,11283,0,0, 11332,11284,0,0, 11333,11285,0,0, 11334,11286,0,0,
    11335,11287,0,0, 11336,11288,0,0, 11337,11289,0,0, 11338,11290,0,0,
    11339,11291,0,0, 11340,11292,0,0, 11341,11293,0,0, 11342,11294,0,0,
    11343,11295,0,0, 11344,11296,0,0, 11345,11297,0,0, 11346,11298,0,0,
    11347,11299,0,0, 11348,11300,0,0, 11349,11301,0,0, 11350,11302,0,0,
    11351,11303,0,0, 11352,11304,0,0, 11353,11305,0,0, 11354,11306,0,0,
    11355,11307,0,0, 11356,11308,0,0, 11357,11309,0,0, 11358,11310,0,0,
    11359,11311,0,0, 11361,11360,0,0, 11365,570,0,0, 11366,574,0,0,
    11368,11367,0,0, 11370,11369,0,0, 11372,11371,0,0, 11379,11378,0,0,
    11382,11381,0,0, 11393,11392,0,0, 11395,11394,0,0, 11397,11396,0,0,
    11399,11398,0,0, 11401,11400,0,0, 11403,11402,0,0, 11405,11404,0,0,
    11407,11406,0,0, 11409,11408,0,0, 11411,11410,0,0, 11413,11412,0,0,
    11415,11414,0,0, 11417,11416,0,0, 11419,11418,0,0, 11421,11420,0,0,
    11423,11422,0,0, 11425,11424,0,0, 11427,11426,0,0, 11429,11428,0,0,
    11431,11430,0,0, 11433,11432,0,0, 11435,11434,0,0, 11437,11436,0,0,
    11439,11438,0,0, 11441,11440,0,0, 11443,11442,0,0, 11445,11444,0,0,
    11447,11446,0,0, 11449,11448,0,0, 11451,11450,0,0, 11453,11452,0,0,
    11455,11454,0,0, 11457,11456,0,0, 11459,11458,0,0, 11461,11460,0,0,
    11463,11462,0,0, 11465,11464,0,0, 11467,11466,0,0, 11469,11468,0,0,
    11471,11470,0,0, 11473,11472,0,0, 11475,11474,0,0, 11477,11476,0,0,
    11479,11478,0,0, 11481,11480,0,0, 11483,11482,0,0, 11485,11484,0,0,
    11487,11486,0,0, 11489,11488,0,0, 11491,11490,0,0, 11500,11499,0,0,
    11502,11501,0,0, 11507,11506,0,0, 11520,4256,0,0, 11521,4257,0,0,
    11522,4258,0,0, 11523,4259,0,0, 11524,4260,0,0, 11525,4261,0,0,
    11526,4262,0,0, 11527,4263,0,0, 11528,4264,0,0, 11529,4265,0,0,
    11530,4266,0,0, 11531,4267,0,0, 11532,4268,0,0, 11533,4269,0,0,
    11534,4270,0,0, 11535,4271,0,0, 11536,4272,0,0, 11537,4273,0,0,
    11538,4274,0,0, 11539,4275,0,0, 11540,4276,0,0, 11541,4277,0,0,
    11542,4278,0,0, 11543,4279,0,0, 11544,4280,0,0, 11545,4281,0,0,
    11546,4282,0,0, 11547,4283,0,0, 11548,4284,0,0, 11549,4285,0,0,
    11550,4286,0,0, 11551,4287,0,0, 11552,4288,0,0, 11553,4289,0,0,
    11554,4290,0,0, 11555,4291,0,0, 11556,4292,0,0, 11557,4293,0,0,
    11559,4295,0,0, 11565,4301,0,0, 42561,42560,0,0, 42563,42562,0,0,
    42565,42564,0,0, 42567,42566,0,0, 42569,42568,0,0, 42571,42570,0,0,
    42573,42572,0,0, 42575,42574,0,0, 42577,42576,0,0, 42579,42578,0,0,
    42581,42580,0,0, 42583,42582,0,0, 42585,42584,0,0, 42587,42586,0,0,
    42589,42588,0,0, 42591,42590,0,0, 42593,42592,0,0, 42595,42594,0,0,
    42597,42596,0,0, 42599,42598,0,0, 42601,42600,0,0, 42603,42602,0,0,
    42605,42604,0,0, 42625,42624,0,0, 42627,42626,0,0, 42629,42628,0,0,
    42631,42630,0,0, 42633,42632,0,0, 42635,42634,0,0, 42637,42636,0,0,
    42639,42638,0,0, 42641,42640,0,0, 42643,42642,0,0, 42645,42644,0,0,
    42647,42646,0,0, 42649,42648,0,0, 42651,42650,0,0, 42787,42786,0,0,
    42789,42788,0,0, 42791,42790,0,0, 42793,42792,0,0, 42795,42794,0,0,
    42797,42796,0,0, 42799,42798,0,0, 42803,42802,0,0, 42805,42804,0,0,
    42807,42806,0,0, 42809,42808,0,0, 42811,42810,0,0, 42813,42812,0,0,
    42815,42814,0,0, 42817,42816,0,0, 42819,42818,0,0, 42821,42820,0,0,
    42823,42822,0,0, 42825,42824,0,0, 42827,42826,0,0, 42829,42828,0,0,
    42831,42830,0,0, 42833,42832,0,0, 42835,42834,0,0, 42837,42836,0,0,
    42839,42838,0,0, 42841,42840,0,0, 42843,42842,0,0, 42845,42844,0,0,
    42847,42846,0,0, 42849,42848,0,0, 42851,42850,0,0, 42853,42852,0,0,
    42855,42854,0,0, 42857,42856,0,0, 42859,42858,0,0, 42861,42860,0,0,
    42863,42862,0,0, 42874,42873,0,0, 42876,42875,0,0, 42879,42878,0,0,
    42881,42880,0,0, 42883,42882,0,0, 42885,42884,0,0, 42887,42886,0,0,
    42892,42891,0,0, 42897,42896,0,0, 42899,42898,0,0, 42900,42948,0,0,
    42903,42902,0,0, 42905,42904,0,0, 42907,42906,0,0, 42909,42908,0,0,
    42911,42910,0,0, 42913,42912,0,0, 42915,42914,0,0, 42917,42916,0,0,
    42919,42918,0,0, 42921,42920,0,0, 42933,42932,0,0, 42935,42934,0,0,
    42937,42936,0,0, 42939,42938,0,0, 42941,42940,0,0, 42943,42942,0,0,
    42945,42944,0,0, 42947,42946,0,0, 42952,42951,0,0, 42954,42953,0,0,
    42961,42960,0,0, 42967,42966,0,0, 42969,42968,0,0, 42998,42997,0,0,
    43859,42931,0,0, 43888,5024,0,0, 43889,5025,0,0, 43890,5026,0,0,
    43891,5027,0,0, 43892,5028,0,0, 43893,5029,0,0, 43894,5030,0,0,
    43895,5031,0,0, 43896,5032,0,0, 43897,5033,0,0, 43898,5034,0,0,
    43899,5035,0,0, 43900,5036,0,0, 43901,5037,0,0, 43902,5038,0,0,
    43903,5039,0,0, 43904,5040,0,0, 43905,5041,0,0, 43906,5042,0,0,
    43907,5043,0,0, 43908,5044,0,0, 43909,5045,0,0, 43910,5046,0,0,
    43911,5047,0,0, 43912,5048,0,0, 43913,5049,0,0, 43914,5050,0,0,
    43915,5051,0,0, 43916,5052,0,0, 43917,5053,0,0, 43918,5054,0,0,
    43919,5055,0,0, 43920,5056,0,0, 43921,5057,0,0, 43922,5058,0,0,
    43923,5059,0,0, 43924,5060,0,0, 43925,5061,0,0, 43926,5062,0,0,
    43927,5063,0,0, 43928,5064,0,0, 43929,5065,0,0, 43930,5066,0,0,
    43931,5067,0,0, 43932,5068,0,0, 43933,5069,0,0, 43934,5070,0,0,
    43935,5071,0,0, 43936,5072,0,0, 43937,5073,0,0, 43938,5074,0,0,
    43939,5075,0,0, 43940,5076,0,0, 43941,5077,0,0, 43942,5078,0,0,
    43943,5079,0,0, 43944,5080,0,0, 43945,5081,0,0, 43946,5082,0,0,
    43947,5083,0,0, 43948,5084,0,0, 43949,5085,0,0, 43950,5086,0,0,
    43951,5087,0,0, 43952,5088,0,0, 43953,5089,0,0, 43954,5090,0,0,
    43955,5091,0,0, 43956,5092,0,0, 43957,5093,0,0, 43958,5094,0,0,
    43959,5095,0,0, 43960,5096,0,0, 43961,5097,0,0, 43962,5098,0,0,
    43963,5099,0,0, 43964,5100,0,0, 43965,5101,0,0, 43966,5102,0,0,
    43967,5103,0,0, 64256,70,70,0, 64257,70,73,0, 64258,70,76,0,
    64259,70,70,73, 64260,70,70,76, 64261,83,84,0, 64262,83,84,0,
    64275,1348,1350,0, 64276,1348,1333,0, 64277,1348,1339,0,
    64278,1358,1350,0, 64279,1348,1341,0, 65345,65313,0,0, 65346,65314,0,0,
    65347,65315,0,0, 65348,65316,0,0, 65349,65317,0,0, 65350,65318,0,0,
    65351,65319,0,0, 65352,65320,0,0, 65353,65321,0,0, 65354,65322,0,0,
    65355,65323,0,0, 65356,65324,0,0, 65357,65325,0,0, 65358,65326,0,0,
    65359,65327,0,0, 65360,65328,0,0, 65361,65329,0,0, 65362,65330,0,0,
    65363,65331,0,0, 65364,65332,0,0, 65365,65333,0,0, 65366,65334,0,0,
    65367,65335,0,0, 65368,65336,0,0, 65369,65337,0,0, 65370,65338,0,0,
    66600,66560,0,0, 66601,66561,0,0, 66602,66562,0,0, 66603,66563,0,0,
    66604,66564,0,0, 66605,66565,0,0, 66606,66566,0,0, 66607,66567,0,0,
    66608,66568,0,0, 66609,66569,0,0, 66610,66570,0,0, 66611,66571,0,0,
    66612,66572,0,0, 66613,66573,0,0, 66614,66574,0,0, 66615,66575,0,0,
    66616,66576,0,0, 66617,66577,0,0, 66618,66578,0,0, 66619,66579,0,0,
    66620,66580,0,0, 66621,66581,0,0, 66622,66582,0,0, 66623,66583,0,0,
    66624,66584,0,0, 66625,66585,0,0, 66626,66586,0,0, 66627,66587,0,0,
    66628,66588,0,0, 66629,66589,0,0, 66630,66590,0,0, 66631,66591,0,0,
    66632,66592,0,0, 66633,66593,0,0, 66634,66594,0,0, 66635,66595,0,0,
    66636,66596,0,0, 66637,66597,0,0, 66638,66598,0,0, 66639,66599,0,0,
    66776,66736,0,0, 66777,66737,0,0, 66778,66738,0,0, 66779,66739,0,0,
    66780,66740,0,0, 66781,66741,0,0, 66782,66742,0,0, 66783,66743,0,0,
    66784,66744,0,0, 66785,66745,0,0, 66786,66746,0,0, 66787,66747,0,0,
    66788,66748,0,0, 66789,66749,0,0, 66790,66750,0,0, 66791,66751,0,0,
    66792,66752,0,0, 66793,66753,0,0, 66794,66754,0,0, 66795,66755,0,0,
    66796,66756,0,0, 66797,66757,0,0, 66798,66758,0,0, 66799,66759,0,0,
    66800,66760,0,0, 66801,66761,0,0, 66802,66762,0,0, 66803,66763,0,0,
    66804,66764,0,0, 66805,66765,0,0, 66806,66766,0,0, 66807,66767,0,0,
    66808,66768,0,0, 66809,66769,0,0, 66810,66770,0,0, 66811,66771,0,0,
    66967,66928,0,0, 66968,66929,0,0, 66969,66930,0,0, 66970,66931,0,0,
    66971,66932,0,0, 66972,66933,0,0, 66973,66934,0,0, 66974,66935,0,0,
    66975,66936,0,0, 66976,66937,0,0, 66977,66938,0,0, 66979,66940,0,0,
    66980,66941,0,0, 66981,66942,0,0, 66982,66943,0,0, 66983,66944,0,0,
    66984,66945,0,0, 66985,66946,0,0, 66986,66947,0,0, 66987,66948,0,0,
    66988,66949,0,0, 66989,66950,0,0, 66990,66951,0,0, 66991,66952,0,0,
    66992,66953,0,0, 66993,66954,0,0, 66995,66956,0,0, 66996,66957,0,0,
    66997,66958,0,0, 66998,66959,0,0, 66999,66960,0,0, 67000,66961,0,0,
    67001,66962,0,0, 67003,66964,0,0, 67004,66965,0,0, 68800,68736,0,0,
    68801,68737,0,0, 68802,68738,0,0, 68803,68739,0,0, 68804,68740,0,0,
    68805,68741,0,0, 68806,68742,0,0, 68807,68743,0,0, 68808,68744,0,0,
    68809,68745,0,0, 68810,68746,0,0, 68811,68747,0,0, 68812,68748,0,0,
    68813,68749,0,0, 68814,68750,0,0, 68815,68751,0,0, 68816,68752,0,0,
    68817,68753,0,0, 68818,68754,0,0, 68819,68755,0,0, 68820,68756,0,0,
    68821,68757,0,0, 68822,68758,0,0, 68823,68759,0,0, 68824,68760,0,0,
    68825,68761,0,0, 68826,68762,0,0, 68827,68763,0,0, 68828,68764,0,0,
    68829,68765,0,0, 68830,68766,0,0, 68831,68767,0,0, 68832,68768,0,0,
    68833,68769,0,0, 68834,68770,0,0, 68835,68771,0,0, 68836,68772,0,0,
    68837,68773,0,0, 68838,68774,0,0, 68839,68775,0,0, 68840,68776,0,0,
    68841,68777,0,0, 68842,68778,0,0, 68843,68779,0,0, 68844,68780,0,0,
    68845,68781,0,0, 68846,68782,0,0, 68847,68783,0,0, 68848,68784,0,0,
    68849,68785,0,0, 68850,68786,0,0, 71872,71840,0,0, 71873,71841,0,0,
    71874,71842,0,0, 71875,71843,0,0, 71876,71844,0,0, 71877,71845,0,0,
    71878,71846,0,0, 71879,71847,0,0, 71880,71848,0,0, 71881,71849,0,0,
    71882,71850,0,0, 71883,71851,0,0, 71884,71852,0,0, 71885,71853,0,0,
    71886,71854,0,0, 71887,71855,0,0, 71888,71856,0,0, 71889,71857,0,0,
    71890,71858,0,0, 71891,71859,0,0, 71892,71860,0,0, 71893,71861,0,0,
    71894,71862,0,0, 71895,71863,0,0, 71896,71864,0,0, 71897,71865,0,0,
    71898,71866,0,0, 71899,71867,0,0, 71900,71868,0,0, 71901,71869,0,0,
    71902,71870,0,0, 71903,71871,0,0, 93792,93760,0,0, 93793,93761,0,0,
    93794,93762,0,0, 93795,93763,0,0, 93796,93764,0,0, 93797,93765,0,0,
    93798,93766,0,0, 93799,93767,0,0, 93800,93768,0,0, 93801,93769,0,0,
    93802,93770,0,0, 93803,93771,0,0, 93804,93772,0,0, 93805,93773,0,0,
    93806,93774,0,0, 93807,93775,0,0, 93808,93776,0,0, 93809,93777,0,0,
    93810,93778,0,0, 93811,93779,0,0, 93812,93780,0,0, 93813,93781,0,0,
    93814,93782,0,0, 93815,93783,0,0, 93816,93784,0,0, 93817,93785,0,0,
    93818,93786,0,0, 93819,93787,0,0, 93820,93788,0,0, 93821,93789,0,0,
    93822,93790,0,0, 93823,93791,0,0, 125218,125184,0,0, 125219,125185,0,0,
    125220,125186,0,0, 125221,125187,0,0, 125222,125188,0,0,
    125223,125189,0,0, 125224,125190,0,0, 125225,125191,0,0,
    125226,125192,0,0, 125227,125193,0,0, 125228,125194,0,0,
    125229,125195,0,0, 125230,125196,0,0, 125231,125197,0,0,
    125232,125198,0,0, 125233,125199,0,0, 125234,125200,0,0,
    125235,125201,0,0, 125236,125202,0,0, 125237,125203,0,0,
    125238,125204,0,0, 125239,125205,0,0, 125240,125206,0,0,
    125241,125207,0,0, 125242,125208,0,0, 125243,125209,0,0,
    125244,125210,0,0, 125245,125211,0,0, 125246,125212,0,0,
    125247,125213,0,0, 125248,125214,0,0, 125249,125215,0,0,
    125250,125216,0,0, 125251,125217,0,0
  >>

\* The case-ignorable characters, as ranges of code points: the first
\* and the last of each range, one range after the other.
CaseIgnorableRanges ==
  <<
    39,39, 46,46, 58,58, 94,94, 96,96, 168,168, 173,173, 175,175, 180,180,
    183,184, 688,879, 884,885, 890,890, 900,901, 903,903, 1155,1161,
    1369,1369, 1375,1375, 1425,1469, 1471,1471, 1473,1474, 1476,1477,
    1479,1479, 1524,1524, 1536,1541, 1552,1562, 1564,1564, 1600,1600,
    1611,1631, 1648,1648, 1750,1757, 1759,1768, 1770,1773, 1807,1807,
    1809,1809, 1840,1866, 1958,1968, 2027,2037, 2042,2042, 2045,2045,
    2070,2093, 2137,2139, 2184,2184, 2192,2193, 2200,2207, 2249,2306,
    2362,2362, 2364,2364, 2369,2376, 2381,2381, 2385,2391, 2402,2403,
    2417,2417, 2433,2433, 2492,2492, 2497,2500, 2509,2509, 2530,2531,
    2558,2558, 2561,2562, 2620,2620, 2625,2626, 2631,2632, 2635,2637,
    2641,2641, 2672,2673, 2677,2677, 2689,2690, 2748,2748, 2753,2757,
    2759,2760, 2765,2765, 2786,2787, 2810,2815, 2817,2817, 2876,2876,
    2879,2879, 2881,2884, 2893,2893, 2901,2902, 2914,2915, 2946,2946,
    3008,3008, 3021,3021, 3072,3072, 3076,3076, 3132,3132, 3134,3136,
    3142,3144, 3146,3149, 3157,3158, 3170,3171, 3201,3201, 3260,3260,
    3263,3263, 3270,3270, 3276,3277, 3298,3299, 3328,3329, 3387,3388,
    3393,3396, 3405,3405, 3426,3427, 3457,3457, 3530,3530, 3538,3540,
    3542,3542, 3633,3633, 3636,3642, 3654,3662, 3761,3761, 3764,3772,
    3782,3782, 3784,3789, 3864,3865, 3893,3893, 3895,3895, 3897,3897,
    3953,3966, 3968,3972, 3974,3975, 3981,3991, 3993,4028, 4038,4038,
    4141,4144, 4146,4151, 4153,4154, 4157,4158, 4184,4185, 4190,4192,
    4209,4212, 4226,4226, 4229,4230, 4237,4237, 4253,4253, 4348,4348,
    4957,4959, 5906,5908, 5938,5939, 5970,5971, 6002,6003, 6068,6069,
    6071,6077, 6086,6086, 6089,6099, 6103,6103, 6109,6109, 6155,6159,
    6211,6211, 6277,6278, 6313,6313, 6432,6434, 6439,6440, 6450,6450,
    6457,6459, 6679,6680, 6683,6683, 6742,6742, 6744,6750, 6752,6752,
    6754,6754, 6757,6764, 6771,6780, 6783,6783, 6823,6823, 6832,6862,
    6912,6915, 6964,6964, 6966,6970, 6972,6972, 6978,6978, 7019,7027,
    7040,7041, 7074,7077, 7080,7081, 7083,7085, 7142,7142, 7144,7145,
    7149,7149, 7151,7153, 7212,7219, 7222,7223, 7288,7293, 7376,7378,
    7380,7392, 7394,7400, 7405,7405, 7412,7412, 7416,7417, 7468,7530,
    7544,7544, 7579,7679, 8125,8125, 8127,8129, 8141,8143, 8157,8159,
    8173,8175, 8189,8190, 8203,8207, 8216,8217, 8228,8228, 8231,8231,
    8234,8238, 8288,8292, 8294,8303, 8305,8305, 8319,8319, 8336,8348,
    8400,8432, 11388,11389, 11503,11505, 11631,11631, 11647,11647,
    11744,11775, 11823,11823, 12293,12293, 12330,12333, 12337,12341,
    12347,12347, 12441,12446, 12540,12542, 40981,40981, 42232,42237,
    42508,42508, 42607,42610, 42612,42621, 42623,42623, 42652,42655,
    42736,42737, 42752,42785, 42864,42864, 42888,42890, 42994,42996,
    43000,43001, 43010,43010, 43014,43014, 43019,43019, 43045,43046,
    43052,43052, 43204,43205, 43232,43249, 43263,43263, 43302,43309,
    43335,43345, 43392,43394, 43443,43443, 43446,43449, 43452,43453,
    43471,43471, 43493,43494, 43561,43566, 43569,43570, 43573,43574,
    43587,43587, 43596,43596, 43632,43632, 43644,43644, 43696,43696,
    43698,43700, 43703,43704, 43710,43711, 43713,43713, 43741,43741,
    43756,43757, 43763,43764, 43766,43766, 43867,43871, 43881,43883,
    44005,44005, 44008,44008, 44013,44013, 64286,64286, 64434,64450,
    65024,65039, 65043,65043, 65056,65071, 65106,65106, 65109,65109,
    65279,65279, 65287,65287, 65294,65294, 65306,65306, 65342,65342,
    65344,65344, 65392,65392, 65438,65439, 65507,65507, 65529,65531,
    66045,66045, 66272,66272, 66422,66426, 67456,67461, 67463,67504,
    67506,67514, 68097,68099, 68101,68102, 68108,68111, 68152,68154,
    68159,68159, 68325,68326, 68900,68903, 69291,69292, 69446,69456,
    69506,69509, 69633,69633, 69688,69702, 69744,69744, 69747,69748,
    69759,69761, 69811,69814, 69817,69818, 69821,69821, 69826,69826,
    69837,69837, 69888,69890, 69927,69931, 69933,69940, 70003,70003,
    70016,70017, 70070,70078, 70089,70092, 70095,70095, 70191,70193,
    70196,70196, 70198,70199, 70206,70206, 70367,70367, 70371,70378,
    70400,70401, 70459,70460, 70464,70464, 70502,70508, 70512,70516,
    70712,70719, 70722,70724, 70726,70726, 70750,70750, 70835,70840,
    70842,70842, 70847,70848, 70850,70851, 71090,71093, 71100,71101,
    71103,71104, 71132,71133, 71219,71226, 71229,71229, 71231,71232,
    71339,71339, 71341,71341, 71344,71349, 71351,71351, 71453,71455,
    71458,71461, 71463,71467, 71727,71735, 71737,71738, 71995,71996,
    71998,71998, 72003,72003, 72148,72151, 72154,72155, 72160,72160,
    72193,72202, 72243,72248, 72251,72254, 72263,72263, 72273,72278,
    72281,72283, 72330,72342, 72344,72345, 72752,72758, 72760,72765,
    72767,72767, 72850,72871, 72874,72880, 72882,72883, 72885,72886,
    73009,73014, 73018,73018, 73020,73021, 73023,73029, 73031,73031,
    73104,73105, 73109,73109, 73111,73111, 73459,73460, 78896,78904,
    92912,92916, 92976,92982, 92992,92995, 94031,94031, 94095,94111,
    94176,94177, 94179,94180, 110576,110579, 110581,110587, 110589,110590,
    113821,113822, 113824,113827, 118528,118573, 118576,118598,
    119143,119145, 119155,119170, 119173,119179, 119210,119213,
    119362,119364, 121344,121398, 121403,121452, 121461,121461,
    121476,121476, 121499,121503, 121505,121519, 122880,122886,
    122888,122904, 122907,122913, 122915,122916, 122918,122922,
    123184,123197, 123566,123566, 123628,123631, 125136,125142,
    125252,125259, 127995,127999, 917505,917505, 917536,917631,
    917760,917999
  >>

\* The cased characters that are not case-ignorable, as ranges.
CasedRanges ==
  <<
    65,90, 97,122, 170,170, 181,181, 186,186, 192,214, 216,246, 248,442,
    444,447, 452,659, 661,687, 880,883, 886,887, 891,893, 895,895, 902,902,
    904,906, 908,908, 910,929, 931,1013, 1015,1153, 1162,1327, 1329,1366,
    1376,1416, 4256,4293, 4295,4295, 4301,4301, 4304,4346, 4349,4351,
    5024,5109, 5112,5117, 7296,7304, 7312,7354, 7357,7359, 7424,7467,
    7531,7543, 7545,7578, 7680,7957, 7960,7965, 7968,8005, 8008,8013,
    8016,8023, 8025,8025, 8027,8027, 8029,8029, 8031,8061, 8064,8116,
    8118,8124, 8126,8126, 8130,8132, 8134,8140, 8144,8147, 8150,8155,
    8160,8172, 8178,8180, 8182,8188, 8450,8450, 8455,8455, 8458,8467,
    8469,8469, 8473,8477, 8484,8484, 8486,8486, 8488,8488, 8490,8493,
    8495,8500, 8505,8505, 8508,8511, 8517,8521, 8526,8526, 8544,8575,
    8579,8580, 9398,9449, 11264,11387, 11390,11492, 11499,11502,
    11506,11507, 11520,11557, 11559,11559, 11565,11565, 42560,42605,
    42624,42651, 42786,42863, 42865,42887, 42891,42894, 42896,42954,
    42960,42961, 42963,42963, 42965,42969, 42997,42998, 43002,43002,
    43824,43866, 43872,43880, 43888,43967, 64256,64262, 64275,64279,
    65313,65338, 65345,65370, 66560,66639, 66736,66771, 66776,66811,
    66928,66938, 66940,66954, 66956,66962, 66964,66965, 66967,66977,
    66979,66993, 66995,67001, 67003,67004, 68736,68786, 68800,68850,
    71840,71903, 93760,93823, 119808,119892, 119894,119964, 119966,119967,
    119970,119970, 119973,119974, 119977,119980, 119982,119993,
    119995,119995, 119997,120003, 120005,120069, 120071,120074,
    120077,120084, 120086,120092, 120094,120121, 120123,120126,
    120128,120132, 120134,120134, 120138,120144, 120146,120485,
    120488,120512, 120514,120538, 120540,120570, 120572,120596,
    120598,120628, 120630,120654, 120656,120686, 120688,120712,
    120714,120744, 120746,120770, 120772,120779, 122624,122633,
    122635,122654, 125184,125251, 127280,127305, 127312,127337,
    127344,127369
  >>

\* The decimal digits (category Nd) come in runs of ten, zero to nine:
\* the code point of the zero of each run.
DigitZeros ==
  <<
    48, 1632, 1776, 1984, 2406, 2534, 2662, 2790, 2918, 3046, 3174, 3302,
    3430, 3558, 3664, 3792, 3872, 4160, 4240, 6112, 6160, 6470, 6608, 6784,
    6800, 6992, 7088, 7232, 7248, 42528, 43216, 43264, 43472, 43504, 43600,
    44016, 65296, 66720, 68912, 69734, 69872, 69942, 70096, 70384, 70736,
    70864, 71248, 71360, 71472, 71904, 72016, 72784, 73040, 73120, 92768,
    92864, 93008, 120782, 120792, 120802, 120812, 120822, 123200, 123632,
    125264, 130032
  >>

\* The characters for which str.isprintable() is false, as ranges.
NonPrintableRanges ==
  <<
    0,31, 127,160, 173,173, 888,889, 896,899, 907,907, 909,909, 930,930,
    1328,1328, 1367,1368, 1419,1420, 1424,1424, 1480,1487, 1515,1518,
    1525,1541, 1564,1564, 1757,1757, 1806,1807, 1867,1868, 1970,1983,
    2043,2044, 2094,2095, 2111,2111, 2140,2141, 2143,2143, 2155,2159,
    2191,2199, 2274,2274, 2436,2436, 2445,2446, 2449,2450, 2473,2473,
    2481,2481, 2483,2485, 2490,2491, 2501,2502, 2505,2506, 2511,2518,
    2520,2523, 2526,2526, 2532,2533, 2559,2560, 2564,2564, 2571,2574,
    2577,2578, 2601,2601, 2609,2609, 2612,2612, 2615,2615, 2618,2619,
    2621,2621, 2627,2630, 2633,2634, 2638,2640, 2642,2648, 2653,2653,
    2655,2661, 2679,2688, 2692,2692, 2702,2702, 2706,2706, 2729,2729,
    2737,2737, 2740,2740, 2746,2747, 2758,2758, 2762,2762, 2766,2767,
    2769,2783, 2788,2789, 2802,2808, 2816,2816, 2820,2820, 2829,2830,
    2833,2834, 2857,2857, 2865,2865, 2868,2868, 2874,2875, 2885,2886,
    2889,2890, 2894,2900, 2904,2907, 2910,2910, 2916,2917, 2936,2945,
    2948,2948, 2955,2957, 2961,2961, 2966,2968, 2971,2971, 2973,2973,
    2976,2978, 2981,2983, 2987,2989, 3002,3005, 3011,3013, 3017,3017,
    3022,3023, 3025,3030, 3032,3045, 3067,3071, 3085,3085, 3089,3089,
    3113,3113, 3130,3131, 3141,3141, 3145,3145, 3150,3156, 3159,3159,
    3163,3164, 3166,3167, 3172,3173, 3184,3190, 3213,3213, 3217,3217,
    3241,3241, 3252,3252, 3258,3259, 3269,3269, 3273,3273, 3278,3284,
    3287,3292, 3295,3295, 3300,3301, 3312,3312, 3315,3327, 3341,3341,
    3345,3345, 3397,3397, 3401,3401, 3408,3411, 3428,3429, 3456,3456,
    3460,3460, 3479,3481, 3506,3506, 3516,3516, 3518,3519, 3527,3529,
    3531,3534, 3541,3541, 3543,3543, 3552,3557, 3568,3569, 3573,3584,
    3643,3646, 3676,3712, 3715,3715, 3717,3717, 3723,3723, 3748,3748,
    3750,3750, 3774,3775, 3781,3781, 3783,3783, 3790,3791, 3802,3803,
    3808,3839, 3912,3912, 3949,3952, 3992,3992, 4029,4029, 4045,4045,
    4059,4095, 4294,4294, 4296,4300, 4302,4303, 4681,4681, 4686,4687,
    4695,4695, 4697,4697, 4702,4703, 4745,4745, 4750,4751, 4785,4785,
    4790,4791, 4799,4799, 4801,4801, 4806,4807, 4823,4823, 4881,4881,
    4886,4887, 4955,4956, 4989,4991, 5018,5023, 5110,5111, 5118,5119,
    5760,5760, 5789,5791, 5881,5887, 5910,5918, 5943,5951, 5972,5983,
    5997,5997, 6001,6001, 6004,6015, 6110,6111, 6122,6127, 6138,6143,
    6158,6158, 6170,6175, 6265,6271, 6315,6319, 6390,6399, 6431,6431,
    6444,6447, 6460,6463, 6465,6467, 6510,6511, 6517,6527, 6572,6575,
    6602,6607, 6619,6621, 6684,6685, 6751,6751, 6781,6782, 6794,6799,
    6810,6815, 6830,6831, 6863,6911, 6989,6991, 7039,7039, 7156,7163,
    7224,7226, 7242,7244, 7305,7311, 7355,7356, 7368,7375, 7419,7423,
    7958,7959, 7966,7967, 8006,8007, 8014,8015, 8024,8024, 8026,8026,
    8028,8028, 8030,8030, 8062,8063, 8117,8117, 8133,8133, 8148,8149,
    8156,8156, 8176,8177, 8181,8181, 8191,8207, 8232,8239, 8287,8303,
    8306,8307, 8335,8335, 8349,8351, 8385,8399, 8433,8447, 8588,8591,
    9255,9279, 9291,9311, 11124,11125, 11158,11158, 11508,11512,
    11558,11558, 11560,11564, 11566,11567, 11624,11630, 11633,11646,
    11671,11679, 11687,11687, 11695,11695, 11703,11703, 11711,11711,
    11719,11719, 11727,11727, 11735,11735, 11743,11743, 11870,11903,
    11930,11930, 12020,12031, 12246,12271, 12284,12288, 12352,12352,
    12439,12440, 12544,12548, 12592,12592, 12687,12687, 12772,12783,
    12831,12831, 42125,42127, 42183,42191, 42540,42559, 42744,42751,
    42955,42959, 42962,42962, 42964,42964, 42970,42993, 43053,43055,
    43066,43071, 43128,43135, 43206,43213, 43226,43231, 43348,43358,
    43389,43391, 43470,43470, 43482,43485, 43519,43519, 43575,43583,
    43598,43599, 43610,43611, 43715,43738, 43767,43776, 43783,43784,
    43791,43792, 43799,43807, 43815,43815, 43823,43823, 43884,43887,
    44014,44015, 44026,44031, 55204,55215, 55239,55242, 55292,63743,
    64110,64111, 64218,64255, 64263,64274, 64280,64284, 64311,64311,
    64317,64317, 64319,64319, 64322,64322, 64325,64325, 64451,64466,
    64912,64913, 64968,64974, 64976,65007, 65050,65055, 65107,65107,
    65127,65127, 65132,65135, 65141,65141, 65277,65280, 65471,65473,
    65480,65481, 65488,65489, 65496,65497, 65501,65503, 65511,65511,
    65519,65531, 65534,65535, 65548,65548, 65575,65575, 65595,65595,
    65598,65598, 65614,65615, 65630,65663, 65787,65791, 65795,65798,
    65844,65846, 65935,65935, 65949,65951, 65953,65999, 66046,66175,
    66205,66207, 66257,66271, 66300,66303, 66340,66348, 66379,66383,
    66427,66431, 66462,66462, 66500,66503, 66518,66559, 66718,66719,
    66730,66735, 66772,66775, 66812,66815, 66856,66863, 66916,66926,
    66939,66939, 66955,66955, 66963,66963, 66966,66966, 66978,66978,
    66994,66994, 67002,67002, 67005,67071, 67383,67391, 67414,67423,
    67432,67455, 67462,67462, 67505,67505, 67515,67583, 67590,67591,
    67593,67593, 67638,67638, 67641,67643, 67645,67646, 67670,67670,
    67743,67750, 67760,67807, 67827,67827, 67830,67834, 67868,67870,
    67898,67902, 67904,67967, 68024,68027, 68048,68049, 68100,68100,
    68103,68107, 68116,68116, 68120,68120, 68150,68151, 68155,68158,
    68169,68175, 68185,68191, 68256,68287, 68327,68330, 68343,68351,
    68406,68408, 68438,68439, 68467,68471, 68498,68504, 68509,68520,
    68528,68607, 68681,68735, 68787,68799, 68851,68857, 68904,68911,
    68922,69215, 69247,69247, 69290,69290, 69294,69295, 69298,69375,
    69416,69423, 69466,69487, 69514,69551, 69580,69599, 69623,69631,
    69710,69713, 69750,69758, 69821,69821, 69827,69839, 69865,69871,
    69882,69887, 69941,69941, 69960,69967, 70007,70015, 70112,70112,
    70133,70143, 70162,70162, 70207,70271, 70279,70279, 70281,70281,
    70286,70286, 70302,70302, 70314,70319, 70379,70383, 70394,70399,
    70404,70404, 70413,70414, 70417,70418, 70441,70441, 70449,70449,
    70452,70452, 70458,70458, 70469,70470, 70473,70474, 70478,70479,
    70481,70486, 70488,70492, 70500,70501, 70509,70511, 70517,70655,
    70748,70748, 70754,70783, 70856,70863, 70874,71039, 71094,71095,
    71134,71167, 71237,71247, 71258,71263, 71277,71295, 71354,71359,
    71370,71423, 71451,71452, 71468,71471, 71495,71679, 71740,71839,
    71923,71934, 71943,71944, 71946,71947, 71956,71956, 71959,71959,
    71990,71990, 71993,71994, 72007,72015, 72026,72095, 72104,72105,
    72152,72153, 72165,72191, 72264,72271, 72355,72367, 72441,72703,
    72713,72713, 72759,72759, 72774,72783, 72813,72815, 72848,72849,
    72872,72872, 72887,72959, 72967,72967, 72970,72970, 73015,73017,
    73019,73019, 73022,73022, 73032,73039, 73050,73055, 73062,73062,
    73065,73065, 73103,73103, 73106,73106, 73113,73119, 73130,73439,
    73465,73647, 73649,73663, 73714,73726, 74650,74751, 74863,74863,
    74869,74879, 75076,77711, 77811,77823, 78895,82943, 83527,92159,
    92729,92735, 92767,92767, 92778,92781, 92863,92863, 92874,92879,
    92910,92911, 92918,92927, 92998,93007, 93018,93018, 93026,93026,
    93048,93052, 93072,93759, 93851,93951, 94027,94030, 94088,94094,
    94112,94175, 94181,94191, 94194,94207, 100344,100351, 101590,101631,
    101641,110575, 110580,110580, 110588,110588, 110591,110591,
    110883,110927, 110931,110947, 110952,110959, 111356,113663,
    113771,113775, 113789,113791, 113801,113807, 113818,113819,
    113824,118527, 118574,118575, 118599,118607, 118724,118783,
    119030,119039, 119079,119080, 119155,119162, 119275,119295,
    119366,119519, 119540,119551, 119639,119647, 119673,119807,
    119893,119893, 119965,119965, 119968,119969, 119971,119972,
    119975,119976, 119981,119981, 119994,119994, 119996,119996,
    120004,120004, 120070,120070, 120075,120076, 120085,120085,
    120093,120093, 120122,120122, 120127,120127, 120133,120133,
    120135,120137, 120145,120145, 120486,120487, 120780,120781,
    121484,121498, 121504,121504, 121520,122623, 122655,122879,
    122887,122887, 122905,122906, 122914,122914, 122917,122917,
    122923,123135, 123181,123183, 123198,123199, 123210,123213,
    123216,123535, 123567,123583, 123642,123646, 123648,124895,
    124903,124903, 124908,124908, 124911,124911, 124927,124927,
    125125,125126, 125143,125183, 125260,125263, 125274,125277,
    125280,126064, 126133,126208, 126270,126463, 126468,126468,
    126496,126496, 126499,126499, 126501,126502, 126504,126504,
    126515,126515, 126520,126520, 126522,126522, 126524,126529,
    126531,126534, 126536,126536, 126538,126538, 126540,126540,
    126544,126544, 126547,126547, 126549,126550, 126552,126552,
    126554,126554, 126556,126556, 126558,126558, 126560,126560,
    126563,126563, 126565,126566, 126571,126571, 126579,126579,
    126584,126584, 126589,126589, 126591,126591, 126602,126602,
    126620,126624, 126628,126628, 126634,126634, 126652,126703,
    126706,126975, 127020,127023, 127124,127135, 127151,127152,
    127168,127168, 127184,127184, 127222,127231, 127406,127461,
    127491,127503, 127548,127551, 127561,127567, 127570,127583,
    127590,127743, 128728,128732, 128749,128751, 128765,128767,
    128884,128895, 128985,128991, 129004,129007, 129009,129023,
    129036,129039, 129096,129103, 129114,129119, 129160,129167,
    129198,129199, 129202,129279, 129620,129631, 129646,129647,
    129653,129655, 129661,129663, 129671,129679, 129709,129711,
    129723,129727, 129734,129743, 129754,129759, 129768,129775,
    129783,129791, 129939,129939, 129995,130031, 130042,131071,
    173792,173823, 177977,177983, 178206,178207, 183970,183983,
    191457,194559, 195102,196607, 201547,917759, 918000,1114111
  >>

\* The characters c.lower() changes, and those c.upper() changes.
LowerChanged == {LowerTable[3 * i - 2] : i \in 1..(Len(LowerTable) \div 3)}

UpperChanged == {UpperTable[4 * i - 3] : i \in 1..(Len(UpperTable) \div 4)}

\* c.lower() and c.upper() for one character on its own, as a str.
LowerMap ==
  [c \in LowerChanged |->
     LET i == CHOOSE j \in 1..(Len(LowerTable) \div 3) :
                LowerTable[3 * j - 2] = c
     IN  SelectSeq(<<LowerTable[3 * i - 1], LowerTable[3 * i]>>,
                   LAMBDA x : x # 0)]

UpperMap ==
  [c \in UpperChanged |->
     LET i == CHOOSE j \in 1..(Len(UpperTable) \div 4) :
                UpperTable[4 * j - 3] = c
     IN  SelectSeq(<<UpperTable[4 * i - 2], UpperTable[4 * i - 1],
                     UpperTable[4 * i]>>,
                   LAMBDA x : x # 0)]

LowerChar(c) == IF c \in LowerChanged THEN LowerMap[c] ELSE <<c>>

UpperChar(c) == IF c \in UpperChanged THEN UpperMap[c] ELSE <<c>>

IsCaseIgnorable(c) == InRanges(c, CaseIgnorableRanges)

\* Asked only of characters that are not case-ignorable.
IsCased(c) == InRanges(c, CasedRanges)

\* Whether the capital sigma at position i of s is in final position: a
\* cased character comes before it and none after it, case-ignorable
\* characters skipped on both sides.
FinalSigma(s, i) ==
  LET before == {j \in 1..(i - 1) : ~IsCaseIgnorable(s[j])}
      after  == {j \in (i + 1)..Len(s) : ~IsCaseIgnorable(s[j])}
  IN  /\ before # {}
      /\ IsCased(s[CHOOSE j \in before : \A k \in before : k <= j])
      /\ \/ after = {}
         \/ ~IsCased(s[CHOOSE j \in after : \A k \in after : j <= k])

\* The concatenation of a list of strs.
RECURSIVE Concat(_)
Concat(parts) ==
  IF \A i \in DOMAIN parts : Len(parts[i]) = 1
  THEN [i \in DOMAIN parts |-> parts[i][1]]
  ELSE LET q == CHOOSE i \in DOMAIN parts :
                  /\ Len(parts[i]) # 1
                  /\ \A j \in 1..(i - 1) : Len(parts[j]) = 1
       IN  [i \in 1..(q - 1) |-> parts[i][1]] \o parts[q]
             \o Concat(SubSeq(parts, q + 1, Len(parts)))

\* s.lower(): character by character, the capital sigma (931) by its
\* position: the final small sigma (962) or the small sigma (963).
Lower(s) ==
  Concat([i \in 1..Len(s) |->
            IF s[i] = 931
            THEN IF FinalSigma(s, i) THEN <<962>> ELSE <<963>>
            ELSE LowerChar(s[i])])

\* s.upper(): character by character.
Upper(s) == Concat([i \in 1..Len(s) |-> UpperChar(s[i])])

\* Whether t occurs in s at (1-based) position p.
OccursAt(s, t, p) ==
  /\ p >= 1
  /\ p + Len(t) - 1 <= Len(s)
  /\ \A j \in 1..Len(t) : s[p + j - 1] = t[j]

\* The operator "t in s" on two strs.
StrIn(t, s) == \E p \in 1..(Len(s) + 1) : OccursAt(s, t, p)

\* The first position q >= p at which t occurs in s, or 0 when there is
\* none.
NextOcc(s, t, p) ==
  LET occ == {q \in p..Len(s) : OccursAt(s, t, q)}
  IN  IF occ = {} THEN 0 ELSE CHOOSE q \in occ : \A r \in occ : q <= r

\* s.replace(old, new), for a non-empty old: the occurrences of old are
\* found left to right without overlap, and the replacement text is never
\* searched again.
RECURSIVE ReplaceFrom(_, _, _, _)
ReplaceFrom(s, old, new, p) ==
  LET q == NextOcc(s, old, p)
  IN  IF q = 0 THEN SubSeq(s, p, Len(s))
      ELSE SubSeq(s, p, q - 1) \o new \o ReplaceFrom(s, old, new, q + Len(old))

Replace(s, old, new) == ReplaceFrom(s, old, new, 1)

\* s.split(sep) for a one-character sep: the list of the fields between the
\* separators; the empty str splits into one empty field.
RECURSIVE SplitFrom(_, _, _)
SplitFrom(s, sep, p) ==
  LET q == NextOcc(s, <<sep>>, p)
  IN  IF q = 0 THEN <<SubSeq(s, p, Len(s))>>
      ELSE <<SubSeq(s, p, q - 1)>> \o SplitFrom(s, sep, q + 1)

Split(s, sep) == SplitFrom(s, sep, 1)

\* sep.join(parts).
RECURSIVE Join(_, _)
Join(sep, parts) ==
  IF parts = <<>> THEN <<>>
  ELSE IF Len(parts) = 1 THEN parts[1]
  ELSE parts[1] \o sep \o Join(sep, Tail(parts))

\* lst[:n] for n >= 0.
Take(lst, n) == SubSeq(lst, 1, IF n < Len(lst) THEN n ELSE Len(lst))

\* The characters str.strip() removes, those with str.isspace(): the
\* controls 9-13 and 28-31, the space, U+0085, U+00A0, U+1680,
\* U+2000-U+200A, U+2028, U+2029, U+202F, U+205F and U+3000.
Whitespace ==
  (9..13) \cup (28..32) \cup {133, 160, 5760} \cup (8192..8202)
    \cup {8232, 8233, 8239, 8287, 12288}

\* The characters int() skips around a numeral: the same without the
\* separators 28-31.
IntWhitespace == Whitespace \ (28..31)

\* s with the characters of ws removed from both ends.
StripOf(s, ws) ==
  LET inked == {i \in 1..Len(s) : s[i] \notin ws}
  IN  IF inked = {} THEN <<>>
      ELSE SubSeq(s, CHOOSE i \in inked : \A j \in inked : i <= j,
                     CHOOSE i \in inked : \A j \in inked : j <= i)

\* s.strip().
Strip(s) == StripOf(s, Whitespace)

\* The decimal text of a natural number.
RECURSIVE IntStr(_)
IntStr(n) ==
  IF n < 10 THEN <<48 + n>>
  ELSE Append(IntStr(n \div 10), 48 + (n % 10))

\* The digits 0-9 and a-f, for escapes.
HexDigits == S("0123456789abcdef")

\* n in lower-case hexadecimal, width digits wide.
RECURSIVE Hex(_, _)
Hex(n, width) ==
  IF width = 0 THEN <<>>
  ELSE Append(Hex(n \div 16, width - 1), HexDigits[(n % 16) + 1])

\* Whether c is a decimal digit of some script, and its value.
IsDigit(c) ==
  \E i \in DOMAIN DigitZeros : DigitZeros[i] <= c /\ c <= DigitZeros[i] + 9

DigitVal(c) ==
  c - DigitZeros[CHOOSE i \in DOMAIN DigitZeros :
                   DigitZeros[i] <= c /\ c <= DigitZeros[i] + 9]

\* The most digits int() converts; a longer numeral raises ValueError
\* (sys.int_info.default_max_str_digits).
MaxStrDigits == 4300

\* int(s).  Whitespace around the numeral is skipped, then come an
\* optional sign and the digits, single underscores allowed between
\* digits.  ok is FALSE where int raises ValueError.  The value is held as
\* its sign and the decimal digits of its magnitude without leading zeros,
\* so that it is exact at every size.
IntParse(s) ==
  LET bare   == StripOf(s, IntWhitespace)
      signed == bare # <<>> /\ bare[1] \in {43, 45}
      body   == IF signed THEN Tail(bare) ELSE bare
      wellformed ==
        /\ body # <<>>
        /\ IsDigit(body[1])
        /\ IsDigit(body[Len(body)])
        /\ \A i \in 1..Len(body) : IsDigit(body[i]) \/ body[i] = 95
        /\ \A i \in 1..(Len(body) - 1) : ~(body[i] = 95 /\ body[i + 1] = 95)
      places == {i \in 1..Len(body) : IsDigit(body[i])}
      ok     == wellformed /\ Cardinality(places) <= MaxStrDigits
      lead   == {i \in places : DigitVal(body[i]) # 0}
      first  == CHOOSE i \in lead : \A j \in lead : i <= j
      kept   == SelectSeq(SubSeq(body, first, Len(body)), IsDigit)
  IN  [ok     |-> ok,
       neg    |-> ok /\ lead # {} /\ signed /\ bare[1] = 45,
       digits |-> IF ~ok \/ lead = {} THEN <<0>>
                  ELSE [i \in 1..Len(kept) |-> DigitVal(kept[i])]]

\* Whether a parsed integer lies strictly between -10^9 and 10^9, and its
\* value then.
IsSmall(n) == Len(n.digits) <= 9

RECURSIVE Magnitude(_)
Magnitude(ds) ==
  IF ds = <<>> THEN 0
  ELSE 10 * Magnitude(SubSeq(ds, 1, Len(ds) - 1)) + ds[Len(ds)]

IntOf(n) == IF n.neg THEN 0 - Magnitude(n.digits) ELSE Magnitude(n.digits)

\* Whether lst[idx] is an element of lst: Python counts a negative index
\* from the end.
IndexOk(lst, idx) == 0 - Len(lst) <= idx /\ idx < Len(lst)

\* lst[idx], for IndexOk(lst, idx).
PyIndex(lst, idx) == IF idx >= 0 THEN lst[idx + 1] ELSE lst[Len(lst) + idx + 1]

\* Whether standard output can encode text: a surrogate code point cannot
\* be encoded, except, under "surrogateescape", those of U+DC80-U+DCFF.
Encodable(text, handler) ==
  \A i \in 1..Len(text) :
    \/ text[i] \notin 55296..57343
    \/ handler = "surrogateescape" /\ text[i] \in 56448..56575

\* Whether standard input can decode a line.  A line is given as the text
\* it decodes to; the code points U+DC80-U+DCFF in it stand for bytes that
\* are no UTF-8, which only "surrogateescape" lets through.
Decodable(text, handler) ==
  \A i \in 1..Len(text) :
    text[i] \in 56448..56575 => handler = "surrogateescape"

\* repr(s) of a str: in single quotes, or in double quotes when s holds a
\* single quote and no double quote; the quote, the backslash, control
\* and non-printable characters escaped.
ReprChar(c, quote) ==
  IF c = quote \/ c = 92 THEN <<92, c>>
  ELSE IF c = 9 THEN <<92, 116>>
  ELSE IF c = 10 THEN <<92, 110>>
  ELSE IF c = 13 THEN <<92, 114>>
  ELSE IF c < 32 \/ c = 127 THEN <<92, 120>> \o Hex(c, 2)
  ELSE IF c < 127 THEN <<c>>
  ELSE IF ~InRanges(c, NonPrintableRanges) THEN <<c>>
  ELSE IF c <= 255 THEN <<92, 120>> \o Hex(c, 2)
  ELSE IF c <= 65535 THEN <<92, 117>> \o Hex(c, 4)
  ELSE <<92, 85>> \o Hex(c, 8)

ReprStr(s) ==
  LET quote == IF (\E i \in 1..Len(s) : s[i] = 39)
                    /\ ~(\E i \in 1..Len(s) : s[i] = 34)
               THEN 34 ELSE 39
  IN  <<quote>> \o Concat([i \in 1..Len(s) |-> ReprChar(s[i], quote)])
        \o <<quote>>

---------------------------------------------------------------------------
(* The values json.load returns.                                           *)

\* A dict: its [key, value] members in insertion order, the keys strs.
JObject(members) ==
  [shape |-> "object", members |-> members, items |-> <<>>, text |-> <<>>]

\* A list of values.
JArray(items) ==
  [shape |-> "array", members |-> <<>>, items |-> items, text |-> <<>>]

\* A str.
JString(text) ==
  [shape |-> "string", members |-> <<>>, items |-> <<>>, text |-> text]

\* An int or a float, as the text str() gives for it.
JNumber(text) ==
  [shape |-> "number", members |-> <<>>, items |-> <<>>, text |-> text]

JTrue == [shape |-> "true", members |-> <<>>, items |-> <<>>, text |-> <<>>]

JFalse == [shape |-> "false", members |-> <<>>, items |-> <<>>, text |-> <<>>]

\* None.
JNull == [shape |-> "null", members |-> <<>>, items |-> <<>>, text |-> <<>>]

\* bool(j): an empty dict, list or str, a zero, False and None are false.
TruthyJ(j) ==
  IF j.shape = "object" THEN j.members # <<>>
  ELSE IF j.shape = "array" THEN j.items # <<>>
  ELSE IF j.shape = "string" THEN j.text # <<>>
  ELSE IF j.shape = "number"
  THEN j.text \notin {S("0"), S("0.0"), S("-0.0")}
  ELSE j.shape = "true"

\* Whether a value is a dict.
IsObject(j) == j.shape = "object"

\* list(d.keys()): the keys in insertion order.
Keys(d) == [i \in 1..Len(d.members) |-> d.members[i].key]

\* k in d, for d a dict.
HasKey(d, k) == \E i \in 1..Len(d.members) : d.members[i].key = k

\* d[k], for k in d.
Item(d, k) ==
  d.members[CHOOSE i \in 1..Len(d.members) : d.members[i].key = k].value

\* d.get(k, default), for d a dict.
Get(d, k, default) == IF HasKey(d, k) THEN Item(d, k) ELSE default

\* Whether "for x in j" can iterate j, and the values it yields then: the
\* elements of a list, the keys of a dict, the characters of a str.
Iterable(j) == j.shape \in {"array", "object", "string"}

Elements(j) ==
  IF j.shape = "array" THEN j.items
  ELSE IF j.shape = "object"
  THEN [i \in 1..Len(j.members) |-> JString(j.members[i].key)]
  ELSE [i \in 1..Len(j.text) |-> JString(<<j.text[i]>>)]

\* repr(j).
RECURSIVE PyRepr(_)
PyRepr(j) ==
  IF j.shape = "string" THEN ReprStr(j.text)
  ELSE IF j.shape = "number" THEN j.text
  ELSE IF j.shape = "true" THEN S("True")
  ELSE IF j.shape = "false" THEN S("False")
  ELSE IF j.shape = "null" THEN S("None")
  ELSE IF j.shape = "array"
  THEN S("[") \o Join(S(", "), [i \in 1..Len(j.items) |-> PyRepr(j.items[i])])
         \o S("]")
  ELSE S("{")
         \o Join(S(", "),
                 [i \in 1..Len(j.members) |->
                    ReprStr(j.members[i].key) \o S(": ")
                      \o PyRepr(j.members[i].value)])
         \o S("}")

\* str(j), which is what "{j}" in an f-string and print(j) write.
PyStr(j) == IF j.shape = "string" THEN j.text ELSE PyRepr(j)

\* What a function of the program yields: the value it returns, or the
\* exception it raises with the line that raises it.
Returns(v) == [error |-> "none", line |-> 0, value |-> v]

Raises(e, l) == [error |-> e, line |-> l, value |-> <<>>]

Returned(r) == r.error = "none"

---------------------------------------------------------------------------
(* The embedded tables, lines 23-64.                                       *)

\* The fallback vendor table: prefix -> vendor name, in source order.
EMBEDDED_VENDORS ==
  JObject(<<
    [key |-> S("00:1A:7D"), value |-> JString(S("Apple, Inc."))],
    [key |-> S("00:12:EF"), value |-> JString(S("Logitech"))],
    [key |-> S("58:7E:5A"), value |-> JString(S("Xiaomi / Redmi"))],
    [key |-> S("A4:5E:60"), value |-> JString(S("Samsung"))],
    [key |-> S("FC:FB:FB"), value |-> JString(S("JBL"))],
    [key |-> S("8C:64:A2"), value |-> JString(S("Generic Vendor"))]>>)

\* The fallback device catalog: vendor -> list of {model, type}.
EMBEDDED_KNOWN ==
  JObject(<<
    [key |-> S("Xiaomi"),
     value |-> JArray(<<
         JObject(<<
           [key |-> S("model"), value |-> JString(S("Redmi Buds 3"))],
           [key |-> S("type"), value |-> JString(S("earphone"))]>>),
         JObject(<<
           [key |-> S("model"), value |-> JString(S("Redmi Sonic"))],
           [key |-> S("type"), value |-> JString(S("headphone"))]>>)>>)],
    [key |-> S("Logitech"),
     value |-> JArray(<<
         JObject(<<
           [key |-> S("model"), value |-> JString(S("M590"))],
           [key |-> S("type"), value |-> JString(S("mouse"))]>>),
         JObject(<<
           [key |-> S("model"), value |-> JString(S("MX Master 3"))],
           [key |-> S("type"), value |-> JString(S("mouse"))]>>)>>)],
    [key |-> S("JBL"),
     value |-> JArray(<<
         JObject(<<
           [key |-> S("model"), value |-> JString(S("Tune 660NC"))],
           [key |-> S("type"), value |-> JString(S("headphone"))]>>)>>)]>>)

\* The fallback policy table: problem key -> policy, in source order.
EMBEDDED_PROBS ==
  JObject(<<
    [key |-> S("no_adapter"),
     value |-> JObject(<<
         [key |-> S("description"),
          value |-> JString(S("No bluetooth adapter found."))],
         [key |-> S("quick_diagnostics"),
          value |-> JArray(<<
              JString(S("lsusb")),
              JString(S("dmesg | grep -i bluetooth"))>>)],
         [key |-> S("remediation_steps"),
          value |-> JArray(<<
              JObject(<<
                [key |-> S("explain"),
                 value |-> JString(S("Check lsusb/lspci"))],
                [key |-> S("commands"),
                 value |-> JArray(<<
                     JString(S("lsusb")),
                     JString(S("lspci -nn | grep -i bluetooth || true"))>>)]>>),
              JObject(<<
                [key |-> S("explain"),
                 value |-> JString(S("Unblock if blocked"))],
                [key |-> S("commands"),
                 value |-> JArray(<<JString(S("sudo rfkill unblock bluetooth"))>>)]>>)>>)],
         [key |-> S("notes"),
          value |-> JString(S("Ensure firmware is present."))]>>)],
    [key |-> S("connect_failed_audio"),
     value |-> JObject(<<
         [key |-> S("description"),
          value |-> JString(S("Audio device pairs but no audio / cannot connect A2DP."))],
         [key |-> S("quick_diagnostics"),
          value |-> JArray(<<
              JString(S("pactl list cards short")),
              JString(S("pactl list sinks short")),
              JString(S("sudo bluetoothctl info <MAC>"))>>)],
         [key |-> S("remediation_steps"),
          value |-> JArray(<<
              JObject(<<
                [key |-> S("explain"),
                 value |-> JString(S("Install audio Bluetooth modules"))],
                [key |-> S("commands"),
                 value |-> JArray(<<
                     JString(S("sudo apt install -y pipewire libspa-0.2-bluetooth || sudo apt install -y pulseaudio pulseaudio-module-bluetooth"))>>)]>>),
              JObject(<<
                [key |-> S("explain"),
                 value |-> JString(S("Restart services"))],
                [key |-> S("commands"),
                 value |-> JArray(<<
                     JString(S("sudo systemctl restart bluetooth")),
                     JString(S("systemctl --user restart pipewire pipewire-pulse || systemctl --user restart pulseaudio || true"))>>)]>>)>>)],
         [key |-> S("notes"),
          value |-> JString(S("Codec support depends on installed modules."))]>>)]>>)

---------------------------------------------------------------------------
(* guess_vendor.                                                           *)

\* guess_vendor without the upper(): the prefix is looked up as typed.
guess_vendor_as_typed(m, v) ==
  IF ~Truthy(m) THEN Returns(JNull)
  ELSE IF ~IsObject(v) THEN Raises("AttributeError", 70)
  ELSE Returns(Get(v, Join(<<58>>, Take(Split(m, 58), 3)), JNull))

\* guess_vendor(mac, vendors).  vendors.get raises on a value that is no
\* dict, past the "if not mac" return only.
guess_vendor(m, v) ==
  IF ~Truthy(m) THEN Returns(JNull)
  ELSE IF ~IsObject(v) THEN Raises("AttributeError", 70)
  ELSE LET prefix == Join(<<58>>, Take(Split(Upper(m), 58), 3))
       IN  Returns(Get(v, prefix, JNull))

---------------------------------------------------------------------------
(* format_plan.                                                            *)

\* The three placeholder tokens of a command template.
TokMAC == S("<MAC>")

TokVendor == S("<vendor>")

TokModel == S("<model>")

NL == S("\n")

\* The field names of a policy and of a step.
Description == S("description")

QuickDiagnostics == S("quick_diagnostics")

RemediationSteps == S("remediation_steps")

Explain == S("explain")

Commands == S("commands")

Notes == S("notes")

\* Lines 96-101: the scan over the entries in table order from entry i on:
\* the first key whose entry matches, or None when the loop ends without a
\* match (the for loop's else).  The description is looked at only when
\* the key does not match; "v.get" raises on an entry that is no dict and
\* ".lower()" on a description that is no str.
RECURSIVE ScanFrom(_, _, _)
ScanFrom(k, d, i) ==
  IF i > Len(d.members) THEN Returns(None)
  ELSE LET it == d.members[i]
           desc == Get(it.value, Description, JString(EmptyStr))
       IN  IF StrIn(Lower(k), Lower(it.key)) THEN Returns(it.key)
           ELSE IF ~IsObject(it.value) THEN Raises("AttributeError", 97)
           ELSE IF desc.shape # "string" THEN Raises("AttributeError", 97)
           ELSE IF StrIn(Lower(k), Lower(desc.text)) THEN Returns(it.key)
           ELSE ScanFrom(k, d, i + 1)

\* Line 94: "key in probs": a key of a dict, an element of a list, a
\* substring of a str.
In(k, d) ==
  IF d.shape = "object" THEN HasKey(d, k)
  ELSE IF d.shape = "array"
  THEN \E i \in 1..Len(d.items) : d.items[i] = JString(k)
  ELSE StrIn(k, d.text)

\* The resolution with the scan tried before the exact key.
resolve_scan_first(k, d) ==
  IF d.shape \in {"number", "true", "false", "null"}
  THEN Raises("TypeError", 94)
  ELSE IF ~IsObject(d) THEN Raises("AttributeError", 96)
  ELSE ScanFrom(k, d, 1)

\* Lines 94-101: the key format_plan settles on, or None.  "in" raises on
\* a value that holds nothing, ".items()" on one that is no dict.
resolve(k, d) ==
  IF d.shape \in {"number", "true", "false", "null"}
  THEN Raises("TypeError", 94)
  ELSE IF In(k, d) THEN Returns(k)
  ELSE IF ~IsObject(d) THEN Raises("AttributeError", 96)
  ELSE ScanFrom(k, d, 1)

\* Line 101: the text returned when nothing matches.
NotFoundText(k, d) ==
  S("No policy found for '") \o k \o S("'. Available: ")
    \o Join(S(", "), Keys(d))

\* Line 112: the command as the plan lists it.
PlanCommand(c, m, vendor, model) ==
  Replace(Replace(Replace(c, TokMAC, Or(m, TokMAC)),
                  TokVendor, Or(vendor, TokVendor)),
          TokModel, Or(model, TokModel))

\* Lines 106-107: one line per quick diagnostic, verbatim.
DiagLines(entry) ==
  LET qd == Elements(Get(entry, QuickDiagnostics, JArray(<<>>)))
  IN  [i \in 1..Len(qd) |-> S("  $ ") \o PyStr(qd[i])]

\* Lines 110-113: a step's heading and its commands.
StepLines(st, idx, m, vendor, model) ==
  LET cs == Elements(Get(st, Commands, JArray(<<>>)))
  IN  <<NL \o S("Step ") \o IntStr(idx) \o S(": ")
           \o PyStr(Get(st, Explain, JNull))>>
      \o [i \in 1..Len(cs) |->
            S("  $ ") \o PlanCommand(cs[i].text, m, vendor, model)]

RECURSIVE AllStepLines(_, _, _, _, _)
AllStepLines(steps, idx, m, vendor, model) ==
  IF idx > Len(steps) THEN <<>>
  ELSE StepLines(steps[idx], idx, m, vendor, model)
         \o AllStepLines(steps, idx + 1, m, vendor, model)

\* Lines 110-112 for one step: the exception the step raises, if any:
\* "st.get" on a step that is no dict, the loop over commands that cannot
\* be iterated, "c.replace" on a command that is no str.
StepFault(st) ==
  IF ~IsObject(st) THEN Raises("AttributeError", 110)
  ELSE LET cs == Get(st, Commands, JArray(<<>>))
       IN  IF ~Iterable(cs) THEN Raises("TypeError", 111)
           ELSE IF \E i \in 1..Len(Elements(cs)) :
                     Elements(cs)[i].shape # "string"
           THEN Raises("AttributeError", 112)
           ELSE Returns(<<>>)

\* The exception of the first step that raises one, from step i on.
RECURSIVE StepsFault(_, _)
StepsFault(steps, i) ==
  IF i > Len(steps) THEN Returns(<<>>)
  ELSE IF ~Returned(StepFault(steps[i])) THEN StepFault(steps[i])
  ELSE StepsFault(steps, i + 1)

\* Lines 103-118: the list "out" for an entry that raises nothing.
PlanLines(entry, m, vendor, model, vendor_map) ==
  <<S("Problem: ") \o PyStr(Get(entry, Description, JNull)) \o NL>>
  \o <<S("Quick diagnostics:")>>
  \o DiagLines(entry)
  \o <<NL \o S("Remediation steps:")>>
  \o AllStepLines(Elements(Get(entry, RemediationSteps, JArray(<<>>))),
                  1, m, vendor, model)
  \o (IF TruthyJ(Get(entry, Notes, JNull))
      THEN <<NL \o S("Notes: ") \o PyStr(Get(entry, Notes, JNull))>>
      ELSE <<>>)
  \o (IF Truthy(m) /\ TruthyJ(vendor_map)
      THEN <<NL \o S("Vendor guess: ")
                \o (IF TruthyJ(guess_vendor(m, vendor_map).value)
                    THEN PyStr(guess_vendor(m, vendor_map).value)
                    ELSE S("Unknown"))>>
      ELSE <<>>)

\* Lines 102-119 for the entry found: the text, or the first exception in
\* the order of the lines.
Render(entry, m, vendor, model, vendor_map) ==
  LET diag  == Get(entry, QuickDiagnostics, JArray(<<>>))
      steps == Get(entry, RemediationSteps, JArray(<<>>))
  IN  IF ~IsObject(entry) THEN Raises("AttributeError", 104)
      ELSE IF ~Iterable(diag) THEN Raises("TypeError", 106)
      ELSE IF ~Iterable(steps) THEN Raises("TypeError", 109)
      ELSE IF ~Returned(StepsFault(Elements(steps), 1))
      THEN StepsFault(Elements(steps), 1)
      ELSE IF Truthy(m) /\ TruthyJ(vendor_map)
                /\ ~Returned(guess_vendor(m, vendor_map))
      THEN guess_vendor(m, vendor_map)
      ELSE Returns(Join(NL, PlanLines(entry, m, vendor, model, vendor_map)))

\* format_plan(key, probs, mac, dev_type, vendor, model, vendor_map).
\* "probs[key]" raises when probs is a list or a str that holds key.
format_plan(k, d, m, dev_type, vendor, model, vendor_map) ==
  LET r == resolve(k, d)
  IN  IF ~Returned(r) THEN r
      ELSE IF r.value = None THEN Returns(NotFoundText(k, d))
      ELSE IF ~IsObject(d) THEN Raises("TypeError", 102)
      ELSE Render(Item(d, r.value), m, vendor, model, vendor_map)

---------------------------------------------------------------------------
(* load_json, the problem selection and run_command.                       *)

\* load_json(path, fallback): a file is "missing", "invalid" (it exists and
\* opening or parsing it raises, which the except clause catches), "valid"
\* (json.load returns its value) or "unreachable": path.exists() itself
\* raises, outside the try, as it does with PermissionError when a
\* directory on the way to the file may not be searched.
load_json(f, fallback) ==
  IF f.state = "unreachable" THEN Raises("PermissionError", 14)
  ELSE IF f.state = "valid" THEN Returns(f.json)
  ELSE Returns(fallback)

\* Whether load_json prints "[warn] failed to load ...": only in the
\* except clause, which a missing file never enters.
load_warns(f) == f.state = "invalid"

\* The selection with the number used as a 0-based index.
ChoiceKeyZeroBased(c, d) ==
  LET n == IntParse(c)
  IN  IF n.ok /\ IsSmall(n) /\ IndexOk(Keys(d), IntOf(n))
      THEN PyIndex(Keys(d), IntOf(n))
      ELSE c

\* Lines 141-145: the key main hands to format_plan for the stripped
\* choice c.  The bare except takes both int's ValueError and the list's
\* IndexError to "key = choice"; an index of 10^9 or beyond is past the
\* end of every list.
ChoiceKey(c, d) ==
  LET n == IntParse(c)
  IN  IF n.ok /\ IsSmall(n) /\ IndexOk(Keys(d), IntOf(n) - 1)
      THEN PyIndex(Keys(d), IntOf(n) - 1)
      ELSE c

\* The timeout handed to subprocess.run, in seconds.
TIMEOUT == 15

\* Line 158: the command as the execution loop runs it.
ExecCommand(c, m, vendor, model) ==
  Replace(Replace(Replace(c, TokMAC, Or(m, EmptyStr)), TokVendor, vendor),
          TokModel, model)

\* One thing the execution loop does: it runs a command template, or an
\* exception is raised.
RunEvent(c) == [kind |-> "run", cmd |-> c, error |-> "none", line |-> 0]

RaiseEvent(e, l) == [kind |-> "raise", cmd |-> <<>>, error |-> e, line |-> l]

\* Lines 157-158: the events of the steps from step i on, steps in order
\* and commands in order within a step, up to the first exception:
\* "st.get" on a step that is no dict and the loop over commands that
\* cannot be iterated (line 157), "cmd.replace" on a command that is no
\* str (line 158).
RECURSIVE StepEvents(_, _)
StepEvents(steps, i) ==
  IF i > Len(steps) THEN <<>>
  ELSE IF ~IsObject(steps[i]) THEN <<RaiseEvent("AttributeError", 157)>>
  ELSE IF ~Iterable(Get(steps[i], Commands, JArray(<<>>)))
  THEN <<RaiseEvent("TypeError", 157)>>
  ELSE LET cs  == Elements(Get(steps[i], Commands, JArray(<<>>)))
           bad == {j \in 1..Len(cs) : cs[j].shape # "string"}
           cut == CHOOSE j \in bad : \A h \in bad : j <= h
       IN  IF bad = {}
           THEN [j \in 1..Len(cs) |-> RunEvent(cs[j].text)]
                  \o StepEvents(steps, i + 1)
           ELSE [j \in 1..(cut - 1) |-> RunEvent(cs[j].text)]
                  \o <<RaiseEvent("AttributeError", 158)>>

\* Lines 156-158: the events of the loop for an entry.
RemediationEvents(entry) ==
  IF ~IsObject(entry) THEN <<RaiseEvent("AttributeError", 156)>>
  ELSE IF ~Iterable(Get(entry, RemediationSteps, JArray(<<>>)))
  THEN <<RaiseEvent("TypeError", 156)>>
  ELSE StepEvents(Elements(Get(entry, RemediationSteps, JArray(<<>>))), 1)

\* The command templates among them.
RemediationCommands(entry) ==
  LET runs == SelectSeq(RemediationEvents(entry), LAMBDA e : e.kind = "run")
  IN  [i \in 1..Len(runs) |-> runs[i].cmd]

\* Where the shell cannot be handed cmd: the first surrogate code point
\* outside U+DC80-U+DCFF, or 0.  The file system encoding is UTF-8 with
\* "surrogateescape", whatever stdio is.
FirstUnencodable(cmd) ==
  LET bad == {i \in 1..Len(cmd) :
                cmd[i] \in 55296..57343 /\ cmd[i] \notin 56448..56575}
  IN  IF bad = {} THEN 0 ELSE CHOOSE i \in bad : \A j \in bad : i <= j

\* The message of the UnicodeEncodeError for it: one character, or the
\* run of surrogates it starts.
EncodeErrorText(cmd) ==
  LET a == FirstUnencodable(cmd)
      rest == {i \in a..Len(cmd) : cmd[i] \notin 55296..57343}
      b == IF rest = {} THEN Len(cmd)
           ELSE (CHOOSE i \in rest : \A j \in rest : i <= j) - 1
  IN  IF a = b
      THEN S("'utf-8' codec can't encode character '\\u") \o Hex(cmd[a], 4)
             \o S("' in position ") \o IntStr(a - 1)
             \o S(": surrogates not allowed")
      ELSE S("'utf-8' codec can't encode characters in position ")
             \o IntStr(a - 1) \o S("-") \o IntStr(b - 1)
             \o S(": surrogates not allowed")

\* run_command(cmd) under what the shell did with it.  subprocess.run
\* raises before it starts anything when cmd cannot be encoded or holds a
\* null character.  Otherwise the process ended (with any exit status:
\* subprocess.run is called without check) and wrote text to its standard
\* output, or subprocess.run raised TimeoutExpired, or raised another
\* exception with message text.
run_command(cmd, outcome) ==
  IF FirstUnencodable(cmd) # 0 THEN S("Error: ") \o EncodeErrorText(cmd)
  ELSE IF \E i \in 1..Len(cmd) : cmd[i] = 0
  THEN S("Error: embedded null byte")
  ELSE IF outcome.kind = "exited" THEN Strip(outcome.text)
  ELSE IF outcome.kind = "timeout"
  THEN S("Error: Command '") \o cmd \o S("' timed out after ")
         \o IntStr(TIMEOUT) \o S(" seconds")
  ELSE S("Error: ") \o outcome.text

---------------------------------------------------------------------------
(* What the environment supplies to a session: the files on disk, the      *)
(* text typed at the prompts, and what each executed command does.         *)

\* A table file that holds a JSON object other than the embedded tables.
VendorsFile ==
  JObject(<<[key |-> S("AA:BB:CC"), value |-> JString(S("Acme"))]>>)

\* A device catalog file.
KnownFile ==
  JObject(<<
    [key |-> S("Acme"),
     value |-> JArray(<<
         JObject(<<
           [key |-> S("model"), value |-> JString(S("K1"))],
           [key |-> S("type"), value |-> JString(S("mouse"))]>>)>>)]>>)

\* A policy file of two policies; the key of the second is a numeral.
ProbsFile ==
  JObject(<<
    [key |-> S("slow"),
     value |-> JObject(<<
         [key |-> S("description"), value |-> JString(S("Audio lag"))],
         [key |-> S("quick_diagnostics"),
          value |-> JArray(<<JString(S("hciconfig"))>>)],
         [key |-> S("remediation_steps"),
          value |-> JArray(<<
              JObject(<<
                [key |-> S("explain"), value |-> JString(S("Trust"))],
                [key |-> S("commands"),
                 value |-> JArray(<<
                     JString(S("trust <MAC>")),
                     JString(S("echo <vendor> <model>"))>>)]>>)>>)]>>)],
    [key |-> S("3"),
     value |-> JObject(<<
         [key |-> S("description"), value |-> JString(S("Slow pairing"))]>>)]>>)

\* A table file that holds valid JSON of another shape: the array [].
JsonArray ==
  JArray(<<>>)

\* A policy file whose one entry is no object.
EntryNoObject ==
  JObject(<<[key |-> S("a"), value |-> JArray(<<>>)]>>)

\* A policy file of objects whose fields hold valid JSON of other types
\* than the data model names: a null description, numbers where lists
\* stand, a number where a step or a command stands.
IllTypedFile ==
  JObject(<<
    [key |-> S("d"),
     value |-> JObject(<<[key |-> S("description"), value |-> JNull]>>)],
    [key |-> S("q"),
     value |-> JObject(<<
         [key |-> S("quick_diagnostics"), value |-> JNumber(S("5"))]>>)],
    [key |-> S("r"),
     value |-> JObject(<<
         [key |-> S("remediation_steps"), value |-> JNumber(S("5"))]>>)],
    [key |-> S("s"),
     value |-> JObject(<<
         [key |-> S("remediation_steps"),
          value |-> JArray(<<JNumber(S("1"))>>)]>>)],
    [key |-> S("c"),
     value |-> JObject(<<
         [key |-> S("remediation_steps"),
          value |-> JArray(<<
              JObject(<<
                [key |-> S("commands"), value |-> JNumber(S("5"))]>>)>>)]>>)],
    [key |-> S("x"),
     value |-> JObject(<<
         [key |-> S("remediation_steps"),
          value |-> JArray(<<
              JObject(<<
                [key |-> S("explain"), value |-> JString(S("e"))],
                [key |-> S("commands"),
                 value |-> JArray(<<JString(S("ok")), JNumber(S("1"))>>)]>>)>>)]>>)]>>)

\* A policy file with the JSON text "\ud800" as a description: json.load
\* returns the str of that one surrogate code point.
SurrogateFile ==
  JObject(<<
    [key |-> S("a"),
     value |-> JObject(<<[key |-> S("description"), value |-> JString(<<55296>>)]>>)]>>)

Missing == [state |-> "missing", json |-> JNull]

Invalid == [state |-> "invalid", json |-> JNull]

Valid(j) == [state |-> "valid", json |-> j]

Unreachable == [state |-> "unreachable", json |-> JNull]

\* The states of vendors.json, known_devices.json and problems.json.
FileSystems ==
  [vendors : {Missing, Invalid, Unreachable, Valid(VendorsFile),
              Valid(JsonArray)},
   known   : {Missing, Invalid, Unreachable, Valid(KnownFile)},
   probs   : {Missing, Invalid, Unreachable, Valid(ProbsFile),
              Valid(JsonArray), Valid(EntryNoObject), Valid(IllTypedFile),
              Valid(SurrogateFile)}]

\* The error handlers standard input and output may have.
Handlers == {"strict", "surrogateescape"}

\* Text typed at the device prompts (before .strip()).
DeviceTypes == { S("mouse ") }

VendorNames == { EmptyStr, S("JBL") }

ModelNames == { S("T660") }

MacInputs == { EmptyStr, S("fc:fb:fb:01:02:03"), S("11:22") }

\* Text typed at "Enter problem key or number: ".  13 is the carriage
\* return, 1778 the Extended Arabic-Indic digit two, 931 the Greek capital
\* sigma, 56448 (U+DC80) a byte that is no UTF-8.
Choices ==
  { S("1"), S(" 2"), S("02"), S("3"), S("4"), S("0"), S("-1"), S("+1"),
    S("audio"), S("slow"), S("connect_failed_audio"), S("zzz"),
    S("b"), S("B"), S("ab"), S("AB"),
    <<49, 13>>, S("3000000000"), <<1778>>, <<931>>, <<56448>> }

\* Text typed at "Execute commands automatically? (y/n): ".
Answers == { S("y"), S(" Y"), <<121, 13>>, S("n"), EmptyStr }

\* Text typed at "Choose (1/2/3) or skip: ".
BannerInputs == { EmptyStr, S("1"), <<50, 13>>, S("3"), S("skip"), <<56448>> }

\* What subprocess.run does with a banner program: it runs to its end,
\* whatever its exit status, or the program cannot be started.
Launches == {"ran", "FileNotFoundError"}

\* What the shell does with one command.
Outcomes ==
  { [kind |-> "exited",  text |-> S("out\n")],
    [kind |-> "timeout", text |-> EmptyStr],
    [kind |-> "raised",  text |-> S("[Errno 12] Cannot allocate memory")] }

---------------------------------------------------------------------------
(* main: one session.                                                      *)

\* The end of standard input, where input() raises EOFError.  -2 is no
\* code point, so this line is no text.
EOF == <<-2>>

\* Bytes that are no UTF-8 reaching the decoder of standard input with a
\* read: in the line asked for, or in what a pipe delivered along with it.
\* -3 is no code point, so this is no text.
Garbled == <<-3>>

\* What input() can meet at a prompt whose lines are drawn from pool.
\* Under "surrogateescape" bytes that are no UTF-8 become text, which the
\* pools hold as the code points U+DC80-U+DCFF.
Lines(pool) ==
  pool \cup {EOF} \cup (IF stdio = "strict" THEN {Garbled} ELSE {})

\* What input() raises for a line, or "none": EOFError at the end of
\* input, UnicodeDecodeError for bytes standard input cannot decode.
ReadFault(line) ==
  IF line = EOF THEN "EOFError"
  ELSE IF line = Garbled THEN "UnicodeDecodeError"
  ELSE IF ~Decodable(line, stdio) THEN "UnicodeDecodeError"
  ELSE "none"

\* No exception has left main.
NoFault == [error |-> "none", line |-> 0]

\* An exception of class e raised at line l that nothing catches: it
\* leaves main and ends the process with a traceback.
Raise(e, l) ==
  /\ pc' = "crashed"
  /\ fault' = [error |-> e, line |-> l]

\* A local of main before its assignment.
Unbound ==
  [shape |-> "unbound", members |-> <<>>, items |-> <<>>, text |-> <<>>]

Init ==
  /\ pc = "load_vendors"
  /\ files \in FileSystems
  /\ stdio \in Handlers
  /\ vendors = Unbound
  /\ known = Unbound
  /\ probs = Unbound
  /\ warnings = {}
  /\ dtype = None
  /\ vname = None
  /\ mname = None
  /\ mac = None
  /\ detected = Unbound
  /\ choice = None
  /\ key = None
  /\ plan = None
  /\ do = None
  /\ todo = <<>>
  /\ executed = <<>>
  /\ outputs = <<>>
  /\ notice = FALSE
  /\ shown = None
  /\ fault = NoFault

\* Line 122.  An exception load_json raises is not caught.
LoadVendors ==
  /\ pc = "load_vendors"
  /\ LET r == load_json(files.vendors, EMBEDDED_VENDORS)
     IN  IF Returned(r)
         THEN /\ vendors' = r.value
              /\ warnings' = IF load_warns(files.vendors)
                             THEN warnings \cup {"vendors.json"} ELSE warnings
              /\ pc' = "load_known"
              /\ UNCHANGED fault
         ELSE Raise(r.error, r.line) /\ UNCHANGED <<vendors, warnings>>
  /\ UNCHANGED <<files, stdio, known, probs, dtype, vname, mname, mac, detected,
                 choice, key, plan, do, todo, executed, outputs, notice,
                 shown>>

\* Line 123.  An exception load_json raises is not caught.
LoadKnown ==
  /\ pc = "load_known"
  /\ LET r == load_json(files.known, EMBEDDED_KNOWN)
     IN  IF Returned(r)
         THEN /\ known' = r.value
              /\ warnings' = IF load_warns(files.known)
                             THEN warnings \cup {"known_devices.json"} ELSE warnings
              /\ pc' = "load_probs"
              /\ UNCHANGED fault
         ELSE Raise(r.error, r.line) /\ UNCHANGED <<known, warnings>>
  /\ UNCHANGED <<files, stdio, vendors, probs, dtype, vname, mname, mac, detected,
                 choice, key, plan, do, todo, executed, outputs, notice,
                 shown>>

\* Line 124.  An exception load_json raises is not caught.
LoadProbs ==
  /\ pc = "load_probs"
  /\ LET r == load_json(files.probs, EMBEDDED_PROBS)
     IN  IF Returned(r)
         THEN /\ probs' = r.value
              /\ warnings' = IF load_warns(files.probs)
                             THEN warnings \cup {"problems.json"} ELSE warnings
              /\ pc' = "banner"
              /\ UNCHANGED fault
         ELSE Raise(r.error, r.line) /\ UNCHANGED <<probs, warnings>>
  /\ UNCHANGED <<files, stdio, vendors, known, dtype, vname, mname, mac, detected,
                 choice, key, plan, do, todo, executed, outputs, notice,
                 shown>>

\* Lines 126-127 and show_banner_option.  The prompt raises at the end of
\* input and on bytes it cannot decode.  "1" and "2" start a banner
\* program, and subprocess.run raises when it cannot be started; "3" opens
\* the browser, any other text does nothing.  What a banner shows is no
\* state of the session.
ShowBanner ==
  /\ pc = "banner"
  /\ \E c \in Lines(BannerInputs), launch \in Launches :
       IF ReadFault(c) # "none"
       THEN Raise(ReadFault(c), 84)
       ELSE IF Strip(c) = S("1") /\ launch = "FileNotFoundError"
       THEN Raise("FileNotFoundError", 86)
       ELSE IF Strip(c) = S("2") /\ launch = "FileNotFoundError"
       THEN Raise("FileNotFoundError", 88)
       ELSE pc' = "ask_type" /\ UNCHANGED fault
  /\ UNCHANGED <<files, stdio, vendors, known, probs, warnings, dtype, vname,
                 mname, mac, detected, choice, key, plan, do, todo, executed,
                 outputs, notice, shown>>

\* Line 129.
AskType ==
  /\ pc = "ask_type"
  /\ \E d \in Lines(DeviceTypes) :
       IF ReadFault(d) # "none"
       THEN Raise(ReadFault(d), 129) /\ UNCHANGED dtype
       ELSE dtype' = Strip(d) /\ pc' = "ask_vendor" /\ UNCHANGED fault
  /\ UNCHANGED <<files, stdio, vendors, known, probs, warnings, vname, mname,
                 mac, detected, choice, key, plan, do, todo, executed,
                 outputs, notice, shown>>

\* Line 130.
AskVendor ==
  /\ pc = "ask_vendor"
  /\ \E v \in Lines(VendorNames) :
       IF ReadFault(v) # "none"
       THEN Raise(ReadFault(v), 130) /\ UNCHANGED vname
       ELSE vname' = Strip(v) /\ pc' = "ask_model" /\ UNCHANGED fault
  /\ UNCHANGED <<files, stdio, vendors, known, probs, warnings, dtype, mname,
                 mac, detected, choice, key, plan, do, todo, executed,
                 outputs, notice, shown>>

\* Line 131.
AskModel ==
  /\ pc = "ask_model"
  /\ \E mo \in Lines(ModelNames) :
       IF ReadFault(mo) # "none"
       THEN Raise(ReadFault(mo), 131) /\ UNCHANGED mname
       ELSE mname' = Strip(mo) /\ pc' = "ask_mac" /\ UNCHANGED fault
  /\ UNCHANGED <<files, stdio, vendors, known, probs, warnings, dtype, vname,
                 mac, detected, choice, key, plan, do, todo, executed,
                 outputs, notice, shown>>

\* Line 132.
AskMac ==
  /\ pc = "ask_mac"
  /\ \E m \in Lines(MacInputs) :
       IF ReadFault(m) # "none"
       THEN Raise(ReadFault(m), 132) /\ UNCHANGED mac
       ELSE mac' = Strip(m) /\ pc' = "detect" /\ UNCHANGED fault
  /\ UNCHANGED <<files, stdio, vendors, known, probs, warnings, dtype, vname,
                 mname, detected, choice, key, plan, do, todo, executed,
                 outputs, notice, shown>>

\* Line 134: an exception raised in guess_vendor (line 70) is not caught;
\* print raises when standard output cannot encode the value.
DetectVendor ==
  /\ pc = "detect"
  /\ LET r == guess_vendor(mac, vendors)
     IN  IF ~Returned(r)
         THEN Raise(r.error, r.line) /\ UNCHANGED detected
         ELSE IF ~Encodable(PyStr(r.value), stdio)
         THEN Raise("UnicodeEncodeError", 134) /\ UNCHANGED detected
         ELSE /\ pc' = "list"
              /\ detected' = r.value
              /\ UNCHANGED fault
  /\ UNCHANGED <<files, stdio, vendors, known, probs, warnings, dtype, vname,
                 mname, mac, choice, key, plan, do, todo, executed, outputs,
                 notice, shown>>

\* Line 138: the line printed for entry i of the table (8212 is the em
\* dash).
ListLine(d, i) ==
  IntStr(i) \o S(". ") \o d.members[i].key \o <<32, 8212, 32>>
    \o PyStr(Get(d.members[i].value, Description, JNull))

\* Lines 136-138: what the listing raises, if anything: probs.keys() on a
\* value that is no dict (line 137); for the first entry in table order
\* that has one of them, ".get" on an entry that is no dict or a line
\* standard output cannot encode (line 138).
ListFault(d, handler) ==
  IF ~IsObject(d) THEN Raises("AttributeError", 137)
  ELSE LET bad == {i \in 1..Len(d.members) :
                     \/ ~IsObject(d.members[i].value)
                     \/ ~Encodable(ListLine(d, i), handler)}
           first == CHOOSE i \in bad : \A j \in bad : i <= j
       IN  IF bad = {} THEN Returns(<<>>)
           ELSE IF ~IsObject(d.members[first].value)
           THEN Raises("AttributeError", 138)
           ELSE Raises("UnicodeEncodeError", 138)

ListPolicies ==
  /\ pc = "list"
  /\ IF Returned(ListFault(probs, stdio))
     THEN pc' = "choose" /\ UNCHANGED fault
     ELSE Raise(ListFault(probs, stdio).error, ListFault(probs, stdio).line)
  /\ UNCHANGED <<files, stdio, vendors, known, probs, warnings, dtype, vname,
                 mname, mac, detected, choice, key, plan, do, todo, executed,
                 outputs, notice, shown>>

\* Lines 140-145.
Choose ==
  /\ pc = "choose"
  /\ \E c \in Lines(Choices) :
       IF ReadFault(c) # "none"
       THEN Raise(ReadFault(c), 140) /\ UNCHANGED <<choice, key>>
       ELSE /\ choice' = Strip(c)
            /\ key' = ChoiceKey(Strip(c), probs)
            /\ pc' = "plan"
            /\ UNCHANGED fault
  /\ UNCHANGED <<files, stdio, vendors, known, probs, warnings, dtype, vname,
                 mname, mac, detected, plan, do, todo, executed, outputs,
                 notice, shown>>

\* Lines 147-150.  An exception raised in format_plan is not caught, and
\* print raises when standard output cannot encode the plan.  format_plan
\* rebinds its own parameter "key" when it falls back to the scan; main's
\* "key" stays what Choose made it.
ShowPlan ==
  /\ pc = "plan"
  /\ LET r == format_plan(key, probs, mac, dtype, vname, mname, vendors)
     IN  IF ~Returned(r)
         THEN Raise(r.error, r.line) /\ UNCHANGED <<plan, shown>>
         ELSE /\ plan' = r.value
              /\ shown' = resolve(key, probs).value
              /\ IF Encodable(r.value, stdio)
                 THEN pc' = "confirm" /\ UNCHANGED fault
                 ELSE Raise("UnicodeEncodeError", 149)
  /\ UNCHANGED <<files, stdio, vendors, known, probs, warnings, dtype, vname,
                 mname, mac, detected, choice, key, do, todo, executed,
                 outputs, notice>>

\* Lines 153-156 and 162-163.
Confirm ==
  /\ pc = "confirm"
  /\ \E a \in Lines(Answers) :
       IF ReadFault(a) # "none"
       THEN Raise(ReadFault(a), 153) /\ UNCHANGED <<do, todo, notice>>
       ELSE
       /\ do' = Lower(Strip(a))
       /\ UNCHANGED fault
       /\ IF Lower(Strip(a)) = S("y")
          THEN IF HasKey(probs, key)
               THEN /\ todo' = RemediationEvents(Item(probs, key))
                    /\ notice' = FALSE
                    /\ pc' = IF RemediationEvents(Item(probs, key)) = <<>>
                             THEN "done" ELSE "exec"
               ELSE /\ todo' = <<>>
                    /\ notice' = TRUE
                    /\ pc' = "done"
          ELSE /\ todo' = <<>>
               /\ notice' = FALSE
               /\ pc' = "done"
  /\ UNCHANGED <<files, stdio, vendors, known, probs, warnings, dtype, vname,
                 mname, mac, detected, choice, key, plan, executed, outputs,
                 shown>>

\* Lines 156-161: one turn of the execution loop: the next command is
\* substituted, announced, run and its output printed, or the loop raises.
RunNext ==
  /\ pc = "exec"
  /\ \E o \in Outcomes :
       LET ev    == Head(todo)
           cexec == ExecCommand(ev.cmd, mac, vname, mname)
           out   == run_command(cexec, o)
       IN  IF ev.kind = "raise"
           THEN Raise(ev.error, ev.line) /\ UNCHANGED <<todo, executed, outputs>>
           ELSE IF ~Encodable(S("Running: ") \o cexec, stdio)
           THEN /\ Raise("UnicodeEncodeError", 159)
                /\ UNCHANGED <<todo, executed, outputs>>
           ELSE /\ executed' = Append(executed, cexec)
                /\ outputs' = Append(outputs, out)
                /\ todo' = Tail(todo)
                /\ IF Encodable(out, stdio)
                   THEN /\ pc' = IF Tail(todo) = <<>> THEN "done" ELSE "exec"
                        /\ UNCHANGED fault
                   ELSE Raise("UnicodeEncodeError", 161)
  /\ UNCHANGED <<files, stdio, vendors, known, probs, warnings, dtype, vname,
                 mname, mac, detected, choice, key, plan, do, notice, shown>>

Next ==
  \/ LoadVendors
  \/ LoadKnown
  \/ LoadProbs
  \/ ShowBanner
  \/ AskType
  \/ AskVendor
  \/ AskModel
  \/ AskMac
  \/ DetectVendor
  \/ ListPolicies
  \/ Choose
  \/ ShowPlan
  \/ Confirm
  \/ RunNext

Spec == Init /\ [][Next]_vars

---------------------------------------------------------------------------
(* guess_vendor on its own: every vendor table and MAC of a bounded        *)
(* family.                                                                 *)

\* The largest number of colon-separated octets of a generated MAC.
MaxOctets == 5

\* Octets in both cases, an empty one, and one of the letters y with
\* diaeresis (255) and sharp s (223), whose upper case is U+0178 "SS".
OctetPool ==
  { S("aa"), S("AA"), S("bB"), S("1C"), <<255, 223>>, EmptyStr }

\* The MACs of up to MaxOctets octets, and some text that is no MAC.
GeneratedMacs ==
  { Join(<<58>>, o) : o \in UNION { [1..n -> OctetPool] : n \in 0..MaxOctets } }
    \cup { S("aa-bb-1c-00"), S(" "), S("AA:BB1C") }

\* Vendor tables: prefixes of three octets, upper case as the data model
\* has them, one in lower case and one with lower-case letters outside
\* ASCII.
VendorTables ==
  { EMBEDDED_VENDORS,
    JObject(<<>>),
    JObject(<<[key |-> S("AA:BB:1C"), value |-> JString(S("Acme"))]>>),
    JObject(<<
      [key |-> S("AA:AA:AA"), value |-> JString(S("Ay"))],
      [key |-> S("aa:bb:1c"), value |-> JString(S("low"))],
      [key |-> S("AA::BB"), value |-> JString(S("Gap"))],
      [key |-> <<376, 83, 83>> \o S(":AA:AA"), value |-> JString(S("Yss"))],
      [key |-> <<255, 223>> \o S(":AA:AA"), value |-> JString(S("yd"))],
      [key |-> S("AA:BB:1C"), value |-> JString(S("Acme"))]>>) }

InitVendor ==
  /\ pc = "guess_vendor"
  /\ vendors \in VendorTables
  /\ mac \in GeneratedMacs
  /\ files = [vendors |-> Missing, known |-> Missing, probs |-> Missing]
  /\ stdio = "strict"
  /\ known = Unbound
  /\ probs = Unbound
  /\ warnings = {}
  /\ dtype = None
  /\ vname = None
  /\ mname = None
  /\ detected = Unbound
  /\ choice = None
  /\ key = None
  /\ plan = None
  /\ do = None
  /\ todo = <<>>
  /\ executed = <<>>
  /\ outputs = <<>>
  /\ notice = FALSE
  /\ shown = None
  /\ fault = NoFault

\* A call guess_vendor(mac, vendors).
CallGuessVendor ==
  /\ pc = "guess_vendor"
  /\ LET r == guess_vendor(mac, vendors)
     IN  IF Returned(r)
         THEN detected' = r.value /\ pc' = "returned" /\ UNCHANGED fault
         ELSE Raise(r.error, r.line) /\ UNCHANGED detected
  /\ UNCHANGED <<files, stdio, vendors, known, probs, warnings, dtype, vname,
                 mname, mac, choice, key, plan, do, todo, executed, outputs,
                 notice, shown>>

NextVendor == CallGuessVendor

SpecVendor == InitVendor /\ [][NextVendor]_vars

---------------------------------------------------------------------------
(* The problem selection and format_plan on their own: every policy table  *)
(* of a bounded family, reached through main's selection (Choose, then     *)
(* ShowPlan) or by a call of format_plan with the key given.               *)

\* The largest number of entries of a generated policy table.
MaxTable == 3

KeyPool == { S("b"), S("B"), S("ab"), S("2") }

\* The descriptions an entry may carry; None stands for an entry without
\* the field.  The first ends in the Greek capital sigma (931).
DescPool == { None, <<97, 66, 931>>, S("x2") }

\* What an entry holds besides its description; the fields are optional.
Body(k) ==
  IF k = S("b")
  THEN <<[key |-> RemediationSteps,
          value |-> JArray(<<
            JObject(<<
              [key |-> Explain, value |-> JString(S("e"))],
              [key |-> Commands,
               value |-> JArray(<<JString(S("c <MAC>")),
                                  JString(S("d <vendor>"))>>)]>>)>>)]>>
  ELSE IF k = S("B")
  THEN <<[key |-> QuickDiagnostics,
          value |-> JArray(<<JString(S("i <MAC>"))>>)],
         [key |-> Notes, value |-> JString(S("n"))]>>
  ELSE IF k = S("ab")
  THEN <<[key |-> RemediationSteps,
          value |-> JArray(<<
            JObject(<<[key |-> Explain, value |-> JString(S("f"))]>>),
            JObject(<<
              [key |-> Commands,
               value |-> JArray(<<JString(S("g <model>"))>>)]>>)>>)],
         [key |-> Notes, value |-> JString(EmptyStr)]>>
  ELSE <<[key |-> QuickDiagnostics, value |-> JArray(<<>>)]>>

Entry(k, dsc) ==
  [key |-> k,
   value |-> JObject(IF dsc = None THEN Body(k)
                     ELSE <<[key |-> Description, value |-> JString(dsc)]>>
                            \o Body(k))]

\* The policy tables of up to MaxTable entries with distinct keys, in every
\* order.
PolicyTables ==
  { JObject([i \in 1..Len(s) |-> Entry(s[i][1], s[i][2])]) :
    s \in { q \in UNION { [1..n -> KeyPool \X DescPool] : n \in 0..MaxTable } :
            \A i, j \in 1..Len(q) : i # j => q[i][1] # q[j][1] } }

\* The keys format_plan is called with directly: what the selection prompt
\* may hand over, and the empty str.
KeyInputs == { Strip(c) : c \in Choices } \cup { EmptyStr }

InitMatch ==
  /\ pc \in {"choose", "format_plan"}
  /\ probs \in PolicyTables
  /\ mac \in { EmptyStr, S("11:22") }
  /\ key \in IF pc = "format_plan" THEN KeyInputs ELSE {None}
  /\ vname = S("JBL")
  /\ mname = EmptyStr
  /\ dtype = EmptyStr
  /\ vendors = EMBEDDED_VENDORS
  /\ files = [vendors |-> Missing, known |-> Missing, probs |-> Missing]
  /\ stdio = "strict"
  /\ known = Unbound
  /\ warnings = {}
  /\ detected = Unbound
  /\ choice = None
  /\ plan = None
  /\ do = None
  /\ todo = <<>>
  /\ executed = <<>>
  /\ outputs = <<>>
  /\ notice = FALSE
  /\ shown = None
  /\ fault = NoFault

\* A call format_plan(key, probs, ...) with the key given.
CallFormatPlan ==
  /\ pc = "format_plan"
  /\ LET r == format_plan(key, probs, mac, dtype, vname, mname, vendors)
     IN  IF Returned(r)
         THEN /\ plan' = r.value
              /\ shown' = resolve(key, probs).value
              /\ pc' = "returned"
              /\ UNCHANGED fault
         ELSE Raise(r.error, r.line) /\ UNCHANGED <<plan, shown>>
  /\ UNCHANGED <<files, stdio, vendors, known, probs, warnings, dtype, vname,
                 mname, mac, detected, choice, key, do, todo, executed,
                 outputs, notice>>

NextMatch ==
  \/ Choose
  \/ ShowPlan
  \/ CallFormatPlan

SpecMatch == InitMatch /\ [][NextMatch]_vars

---------------------------------------------------------------------------
(* Properties.                                                             *)

\* The states of a session in which the plan has been displayed.
PlanShown == pc \in {"confirm", "exec", "done"}

\* Whether the text typed parses as the integer n, for n of at most nine
\* digits.
ParsesTo(c, n) ==
  IntParse(c).ok /\ IsSmall(IntParse(c)) /\ IntOf(IntParse(c)) = n

\* Whether the text typed parses as an integer outside 1..size.
ParsesOutside(c, size) ==
  /\ IntParse(c).ok
  /\ \/ ~IsSmall(IntParse(c))
     \/ IntOf(IntParse(c)) < 1
     \/ IntOf(IntParse(c)) > size

\* Whether two characters are the same letter when case is ignored: they
\* are equal, or have the same lower case, or the same upper case.
SameLetter(a, b) ==
  a = b \/ LowerChar(a) = LowerChar(b) \/ UpperChar(a) = UpperChar(b)

\* Whether needle occurs in hay when letter case is ignored, character by
\* character.
ContainsIgnoringCase(hay, needle) ==
  \E off \in 0..(Len(hay) - Len(needle)) :
    \A j \in 1..Len(needle) : SameLetter(hay[off + j], needle[j])

\* Whether entry i of table d matches the input k by key or description.
Matches(d, i, k) ==
  \/ ContainsIgnoringCase(d.members[i].key, k)
  \/ /\ HasKey(d.members[i].value, Description)
     /\ ContainsIgnoringCase(Item(d.members[i].value, Description).text, k)

\* The full rendering of the entry under key k with the session's values.
Rendering(k) ==
  Join(NL, PlanLines(Item(probs, k), mac, vname, mname, vendors))

\* The commands a displayed plan lists: its lines that start "  $ ".
ListedCommands(text) ==
  LET lines == Split(text, 10)
  IN  { SubSeq(lines[i], 5, Len(lines[i])) :
          i \in { j \in 1..Len(lines) : OccursAt(lines[j], S("  $ "), 1) } }

HasToken(c) == StrIn(TokMAC, c) \/ StrIn(TokVendor, c) \/ StrIn(TokModel, c)

\* The commands main runs for the entry under key k, in table order.
CommandsOf(k) ==
  LET cs == RemediationCommands(Item(probs, k))
  IN  [i \in 1..Len(cs) |-> ExecCommand(cs[i], mac, vname, mname)]

\* C1: a choice that is an integer outside 1..|table| is an error: once the
\* plan text is displayed, no entry was resolved for it and what is
\* displayed is no policy's plan.
C1_OutOfRangeIsError ==
  (PlanShown /\ ParsesOutside(choice, Len(probs.members)))
  => (shown = None /\ ~HasKey(probs, key))

\* C2: a choice that parses as an integer n, 1 <= n <= |table|, selects the
\* n-th key in table order, and the plan displayed is that entry's, also
\* when the text typed is itself a key or occurs in other keys or
\* descriptions.
C2_InRangeNumberSelectsNth ==
  \A n \in 1..Len(probs.members) :
    (pc \in {"plan", "confirm"} /\ ParsesTo(choice, n))
    => /\ key = probs.members[n].key
       /\ pc = "confirm" => (shown = probs.members[n].key
                             /\ plan = Rendering(probs.members[n].key))

\* C2 witness: the numeral "2" was typed, "2" is the first key of a table
\* of two entries, and the plan of the second entry was displayed.
C2_Witness ==
  /\ pc = "confirm"
  /\ choice = S("2")
  /\ Len(probs.members) = 2
  /\ probs.members[1].key = S("2")
  /\ shown = probs.members[2].key

\* C3: format_plan called with a key of the table renders that key's
\* entry, whatever the other entries contain.
C3_ExactKeyWins ==
  (pc = "returned" /\ HasKey(probs, key))
  => (shown = key /\ plan = Rendering(key))

\* C3 witness: the key given is the second key of the table, and the first
\* entry contains it as a substring of its key or description.
C3_Witness ==
  /\ pc = "returned"
  /\ Len(probs.members) = 2
  /\ key = probs.members[2].key
  /\ key # EmptyStr
  /\ Matches(probs, 1, key)
  /\ shown = key

\* C4: format_plan called with a str that is no key of the table renders
\* the first entry, in table order, whose key or description contains it
\* with letter case ignored; when there is none, it resolves no entry and
\* returns the "No policy found" text that lists every key in table order.
C4_FuzzyFallback ==
  (pc = "returned" /\ ~HasKey(probs, key))
  => LET hits == { i \in 1..Len(probs.members) : Matches(probs, i, key) }
     IN  IF hits = {}
         THEN /\ shown = None
              /\ plan = S("No policy found for '") \o key
                          \o S("'. Available: ")
                          \o Join(S(", "), Keys(probs))
         ELSE LET first == CHOOSE i \in hits : \A j \in hits : i <= j
              IN  /\ shown = probs.members[first].key
                  /\ plan = Rendering(probs.members[first].key)

\* C5: when a MAC, a vendor and a model were supplied, no command listed
\* in the displayed plan of a resolved policy holds a placeholder token,
\* and substituting a listed command again changes nothing.
C5_NoPlaceholderListed ==
  (PlanShown /\ shown # None /\ Truthy(mac) /\ Truthy(vname) /\ Truthy(mname))
  => \A c \in ListedCommands(plan) :
       ~HasToken(c) /\ PlanCommand(c, mac, vname, mname) = c

TableOf(f) ==
  IF f = "vendors" THEN vendors ELSE IF f = "known" THEN known ELSE probs

\* The table files whose load_json call has returned.
Loaded == { f \in {"vendors", "known", "probs"} : TableOf(f) # Unbound }

FallbackOf(f) ==
  IF f = "vendors" THEN EMBEDDED_VENDORS
  ELSE IF f = "known" THEN EMBEDDED_KNOWN ELSE EMBEDDED_PROBS

PathOf(f) ==
  IF f = "vendors" THEN "vendors.json"
  ELSE IF f = "known" THEN "known_devices.json" ELSE "problems.json"

\* C6: once its load has returned, a table whose file is missing or
\* invalid is the embedded default and a warning was printed for it.
C6_FallbackWithWarning ==
  \A f \in Loaded :
    files[f].state \in {"missing", "invalid"}
    => (TableOf(f) = FallbackOf(f) /\ PathOf(f) \in warnings)

\* C7: once execution is confirmed for a resolved policy, the loop runs
\* every remediation command of that policy once, in table order, and
\* returns an output for each.
C7_AllCommandsRun ==
  (pc = "done" /\ do = S("y") /\ shown # None)
  => (executed = CommandsOf(shown) /\ Len(outputs) = Len(executed))

\* C8: guess_vendor returns the vendor mapped to the first three octets of
\* the MAC in upper case when the table has that prefix, and None for
\* every other MAC; it raises on none.
C8_VendorResolution ==
  /\ pc # "crashed"
  /\ pc = "returned"
     => LET upper == Upper(mac)
            colons == { i \in 1..Len(upper) : upper[i] = 58 }
            ends == { e \in 0..Len(upper) :
                        /\ e = Len(upper) \/ upper[e + 1] = 58
                        /\ Cardinality({ i \in colons : i <= e }) = 2 }
            hits == { i \in 1..Len(vendors.members) :
                        \E e \in ends :
                          vendors.members[i].key = SubSeq(upper, 1, e) }
        IN  IF hits = {} \/ mac = EmptyStr
            THEN detected = JNull
            ELSE \A i \in hits : detected = vendors.members[i].value

\* C8 witness: a MAC written in lower case resolved to a vendor.
C8_Witness ==
  /\ pc = "returned"
  /\ detected # JNull
  /\ mac # Upper(mac)
  /\ Len(Split(mac, 58)) > 3

\* C9: with each table file missing, invalid JSON or valid JSON of any
\* shape, no load, resolution or execution error ends the process: when
\* the process ends with a traceback, it is for the end of input or bytes
\* that are no text at a prompt, or for a banner program that could not be
\* started.
C9_NoFatalError ==
  (/\ pc = "crashed"
   /\ \A f \in {"vendors", "known", "probs"} :
        files[f].state \in {"missing", "invalid", "valid"})
  => fault.error \in {"EOFError", "UnicodeDecodeError", "FileNotFoundError"}

\* C10: the commands the loop has run and has yet to run are those of the
\* policy whose plan was displayed, and none when "No policy found" was
\* displayed.
C10_ExecutedMatchDisplayed ==
  (pc \in {"exec", "done"} /\ do = S("y"))
  => IF shown = None
     THEN executed = <<>> /\ todo = <<>>
     ELSE LET all == CommandsOf(shown)
          IN  /\ Len(executed) <= Len(all)
              /\ executed = SubSeq(all, 1, Len(executed))
              /\ Len(executed) + Len(todo) = Len(all)

=============================================================================
